---- MODULE Spec2Model ----
(***************************************************************************)
(* Model of the RW4-12 reaction wheel driver (rw_wheel/driver.py): the     *)
(* SLIP framing helpers, the CRC-16 engine, and the request/reply exchange *)
(* of ReactionWheel._send_and_receive over a serial connection.            *)
(*                                                                         *)
(* Bytes are integers 0..255, byte strings are sequences of them.  A       *)
(* Python call's outcome is a record [kind, val]: kind is "bytes" for a    *)
(* returned byte string, "None" for a returned None, or the name of the    *)
(* exception that left the call.                                           *)
(***************************************************************************)
EXTENDS Integers, Sequences, FiniteSets, TLC

\* ------------------------------------------------------------------------
\* Protocol constants
\* ------------------------------------------------------------------------

\* driver.py:24  FEND = 0xC0
FEND == 192
\* driver.py:25  FESC = 0xDB
FESC == 219
\* driver.py:26  TFEND = 0xDC
TFEND == 220
\* driver.py:27  TFESC = 0xDD
TFESC == 221

\* driver.py:32  crcmod.mkCrcFun(0x11021, initCrc=0xFFFF, rev=True, xorOut=0x0000)
CRC_POLY == 69665
CRC_INIT == 65535
CRC_XOROUT == 0

\* standalone_ping.py:12  the reflected polynomial of the bitwise reference
REF_POLY == 33800

\* ------------------------------------------------------------------------
\* Bounds of the model
\* ------------------------------------------------------------------------

\* Longest byte string handed to the pure functions.
MaxLen == 4

\* The bytes the inputs are drawn from: the four SLIP characters and three
\* ordinary bytes (0x00, 0x02 and 0x80 are the bytes of the PING header).
ByteSample == {0, 2, 128, FEND, FESC, TFEND, TFESC}

RECURSIVE SeqsUpTo(_, _)
SeqsUpTo(S, n) ==
    IF n = 0 THEN {<<>>}
    ELSE LET shorter == SeqsUpTo(S, n - 1)
         IN  shorter \cup {Append(s, b) : s \in {t \in shorter : Len(t) = n - 1}, b \in S}

\* ------------------------------------------------------------------------
\* Integer bit operations (Python's ^, &, >> on non-negative integers)
\* ------------------------------------------------------------------------

RECURSIVE BitXor(_, _)
BitXor(a, b) ==
    IF a = 0 THEN b
    ELSE IF b = 0 THEN a
    ELSE ((a + b) % 2) + 2 * BitXor(a \div 2, b \div 2)

\* int.to_bytes(2, 'little') of a 16-bit value
ToBytesLE2(v) == <<v % 256, (v \div 256) % 256>>

\* ------------------------------------------------------------------------
\* CRC engine of the driver: crcmod's table-driven reflected CRC
\* ------------------------------------------------------------------------

\* crcmod _bitrev: the low n bits of x in reverse order
RECURSIVE bitrev(_, _)
bitrev(x, n) ==
    IF n = 0 THEN 0
    ELSE (x % 2) * (2 ^ (n - 1)) + bitrev(x \div 2, n - 1)

\* crcmod _bytecrc_r: eight right shifts of the register, XOR poly on a set low bit
RECURSIVE bytecrc_r(_, _, _)
bytecrc_r(crc, poly, k) ==
    IF k = 0 THEN crc % 65536
    ELSE IF crc % 2 = 1
         THEN bytecrc_r(BitXor(crc \div 2, poly), poly, k - 1)
         ELSE bytecrc_r(crc \div 2, poly, k - 1)

\* crcmod _mkTable_r for the 16-bit polynomial of the driver (rev=True)
crc_table == [i \in 0..255 |-> bytecrc_r(i, bitrev(CRC_POLY % 65536, 16), 8)]

\* crcmod _crc16r over the first n bytes of data:
\* crc = table[x ^ (crc & 0xFF)] ^ (crc >> 8) for every byte x
RECURSIVE crc16r(_, _, _)
crc16r(data, crc, n) ==
    IF n = 0 THEN crc % 65536
    ELSE LET prev == crc16r(data, crc, n - 1)
         IN  BitXor(crc_table[BitXor(data[n], prev % 256)], prev \div 256)

\* A CRC engine that starts from a zero register instead of initCrc.
crc_func_zero_init(data) == crc16r(data, 0, Len(data))

crc_func(data) == BitXor(crc16r(data, BitXor(CRC_INIT, CRC_XOROUT), Len(data)), CRC_XOROUT)

\* ------------------------------------------------------------------------
\* Bitwise reference CRC of standalone_ping.py
\* ------------------------------------------------------------------------

\* standalone_ping.py:11-12  the eight shifts applied after "crc ^= b"
RECURSIVE crc16_bits(_, _)
crc16_bits(crc, k) ==
    IF k = 0 THEN crc
    ELSE IF crc % 2 = 1
         THEN crc16_bits(BitXor(crc \div 2, REF_POLY), k - 1)
         ELSE crc16_bits(crc \div 2, k - 1)

\* standalone_ping.py:9-13  the register after the first n bytes of data
RECURSIVE crc16_upto(_, _, _)
crc16_upto(data, init, n) ==
    IF n = 0 THEN init
    ELSE crc16_bits(BitXor(crc16_upto(data, init, n - 1), data[n]), 8)

\* standalone_ping.py:8  init: int = 0xFFFF
REF_INIT == 65535

crc16(data) == crc16_upto(data, REF_INIT, Len(data)) % 65536

\* ------------------------------------------------------------------------
\* SLIP framing helpers
\* ------------------------------------------------------------------------

Bytes(s) == [kind |-> "bytes", val |-> s, msg |-> ""]
None == [kind |-> "None", val |-> <<>>, msg |-> ""]
Raised(e, m) == [kind |-> e, val |-> <<>>, msg |-> m]

RECURSIVE slip_escape(_)
slip_escape(data) ==
    IF data = <<>> THEN <<>>
    ELSE (IF Head(data) = FEND THEN <<FESC, TFEND>>
          ELSE IF Head(data) = FESC THEN <<FESC, TFESC>>
          ELSE <<Head(data)>>) \o slip_escape(Tail(data))

\* An encoder that escapes the escape marker with the wrong transposed code.
RECURSIVE slip_escape_wrong_code(_)
slip_escape_wrong_code(data) ==
    IF data = <<>> THEN <<>>
    ELSE (IF Head(data) = FEND THEN <<FESC, TFEND>>
          ELSE IF Head(data) = FESC THEN <<FESC, TFEND>>
          ELSE <<Head(data)>>) \o slip_escape_wrong_code(Tail(data))

slip_encode_wrong_code(data) == <<FEND>> \o slip_escape_wrong_code(data) \o <<FEND>>

\* An encoder that escapes only the escape marker and lets the delimiter through.
RECURSIVE slip_escape_no_fend(_)
slip_escape_no_fend(data) ==
    IF data = <<>> THEN <<>>
    ELSE (IF Head(data) = FESC THEN <<FESC, TFESC>>
          ELSE <<Head(data)>>) \o slip_escape_no_fend(Tail(data))

slip_encode_no_fend(data) == <<FEND>> \o slip_escape_no_fend(data) \o <<FEND>>

slip_encode(data) == <<FEND>> \o slip_escape(data) \o <<FEND>>

\* The while loop of _slip_decode over data = frame[1:-1], from 1-based index i.
\* data[i] after "i += 1" is read without a bounds check: IndexError when the
\* escape marker is the last byte of data.
RECURSIVE slip_unescape(_, _, _)
slip_unescape(data, i, decoded) ==
    IF i > Len(data) THEN Bytes(decoded)
    ELSE IF data[i] = FESC
         THEN IF i + 1 > Len(data) THEN Raised("IndexError", "index out of range")
              ELSE slip_unescape(data, i + 2,
                       IF data[i + 1] = TFEND THEN Append(decoded, FEND)
                       ELSE IF data[i + 1] = TFESC THEN Append(decoded, FESC)
                       ELSE decoded)
         ELSE slip_unescape(data, i + 1, Append(decoded, data[i]))

\* A decoder that checks only the opening delimiter.
slip_decode_start_only(frame) ==
    IF Len(frame) = 0 \/ frame[1] # FEND
    THEN None
    ELSE slip_unescape(SubSeq(frame, 2, Len(frame) - 1), 1, <<>>)

slip_decode(frame) ==
    IF Len(frame) = 0 \/ frame[1] # FEND \/ frame[Len(frame)] # FEND
    THEN None
    ELSE slip_unescape(SubSeq(frame, 2, Len(frame) - 1), 1, <<>>)

\* ------------------------------------------------------------------------
\* State
\* ------------------------------------------------------------------------

VARIABLES
    input,           \* the byte string a helper function is called with
    op,              \* which helper calls have been made on input
    output,          \* the outcome of the last helper call
    wheel_addr,      \* ReactionWheel.wheel_addr
    host_addr,       \* ReactionWheel.host_addr
    ser_state,       \* ReactionWheel.ser: "none", "open" or "closed"
    ser_timeout,     \* ReactionWheel.ser.timeout, in tenths of a second
    connections,     \* how many serial.Serial objects the session has made
                     \* and not closed
    pc,              \* position of the caller: "idle", "read" (blocked in
                     \* ser.read(1) inside the receive loop) or "done"
    command,         \* the command argument of the exchange in progress
    payload,         \* the payload argument of the exchange in progress
    written,         \* the frames given to ser.write, in order
    answered,        \* how many of the written requests the peer has answered
    rxq,             \* bytes the peer has sent that ser.read has not returned yet
    noise,           \* how many stray bytes the line has delivered
    frame_received,  \* the receive loop's buffer
    packet_received, \* the outcome of the receive loop's last _slip_decode
    elapsed,         \* time.time() - start_time, in tenths of a second
    waited,          \* how long the current ser.read(1) has been blocked
    result,          \* the outcome of _send_and_receive
    method,          \* the public method the caller is in
    arg,             \* that method's argument (0 when it takes none)
    original_timeout,\* initialize_application's local original_timeout
    ret,             \* the outcome of the public method
    scope,           \* position of a script around its with statement:
                     \* "outside" (before it), "inside" or "exited"
    raised,          \* the exception the body of the with statement raised
    delivered,       \* the exception the with statement ended with
    scan_pc,         \* position of address_scanner.py
    address_to_test, \* address_scanner.py's loop variable (-1 before the loop)
    found_address,   \* address_scanner.py's found_address
    escaped,         \* the exception that left address_scanner.py's try statement
    bus,             \* the devices on the bus address_scanner.py scans:
                     \* pairs of an address and what the device there answers
    peer_pc,         \* position of the thread at the other end of the line
    peer_taken,      \* how many of the bytes written that thread has read
    peer_buf,        \* the bytes its read_until in progress has collected
    peer_waited      \* how long that read_until has been blocked

pureVars == <<input, op, output>>

driverVars == <<wheel_addr, host_addr, ser_state, ser_timeout, connections, pc, command, payload,
                written, answered, rxq, noise, frame_received, packet_received,
                elapsed, waited, result, method, arg, original_timeout, ret>>

\* What only the public methods of the facade change.
facadeVars == <<method, arg, original_timeout, ret>>

\* What only the thread at the other end of a test's line changes.
peerVars == <<peer_pc, peer_taken, peer_buf, peer_waited>>

\* What only the scripts that use the driver change.
scriptVars == <<scope, raised, delivered, scan_pc, address_to_test, found_address,
                escaped, bus, peerVars>>

vars == <<pureVars, driverVars, scriptVars>>

\* ------------------------------------------------------------------------
\* The helper functions called on their own (as the tests and tools do)
\* ------------------------------------------------------------------------

\* The driver's own state when no session is in use.
NoSession ==
    /\ wheel_addr = 0
    /\ host_addr = 0
    /\ ser_state = "none"
    /\ connections = 0
    /\ ser_timeout = 0
    /\ pc = "idle"
    /\ command = 0
    /\ payload = <<>>
    /\ written = <<>>
    /\ answered = 0
    /\ rxq = <<>>
    /\ noise = 0
    /\ frame_received = <<>>
    /\ packet_received = None
    /\ elapsed = 0
    /\ waited = 0
    /\ result = None
    /\ method = "none"
    /\ arg = 0
    /\ original_timeout = 0
    /\ ret = None
    /\ scope = "outside"
    /\ raised = None
    /\ delivered = None
    /\ scan_pc = "start"
    /\ address_to_test = -1
    /\ found_address = -1
    /\ escaped = None
    /\ bus = {}
    /\ peer_pc = "none"
    /\ peer_taken = 0
    /\ peer_buf = <<>>
    /\ peer_waited = 0

InitPure ==
    /\ input \in SeqsUpTo(ByteSample, MaxLen)
    /\ op = "none"
    /\ output = None
    /\ NoSession

\* _slip_encode(input)
CallEncode ==
    /\ op = "none"
    /\ output' = Bytes(slip_encode(input))
    /\ op' = "encode"
    /\ UNCHANGED <<input, driverVars, scriptVars>>

\* _slip_decode(_slip_encode(input))
CallDecodeEncoded ==
    /\ op = "encode"
    /\ output' = slip_decode(output.val)
    /\ op' = "encode_decode"
    /\ UNCHANGED <<input, driverVars, scriptVars>>

\* _slip_decode(input)
CallDecode ==
    /\ op = "none"
    /\ output' = slip_decode(input)
    /\ op' = "decode"
    /\ UNCHANGED <<input, driverVars, scriptVars>>

\* _crc_func(input)
CallCrcFunc ==
    /\ op = "none"
    /\ output' = [kind |-> "int", val |-> <<crc_func(input)>>, msg |-> ""]
    /\ op' = "crc_func"
    /\ UNCHANGED <<input, driverVars, scriptVars>>

\* crc16(input) of standalone_ping.py, on the same input
CallCrc16 ==
    /\ op = "crc_func"
    /\ output' = [kind |-> "int", val |-> Append(output.val, crc16(input)), msg |-> ""]
    /\ op' = "crc_both"
    /\ UNCHANGED <<input, driverVars, scriptVars>>

NextPure ==
    \/ CallEncode
    \/ CallDecodeEncoded
    \/ CallDecode
    \/ CallCrcFunc
    \/ CallCrc16

SpecPure == InitPure /\ [][NextPure]_vars

\* ------------------------------------------------------------------------
\* The driver: ReactionWheel
\* ------------------------------------------------------------------------

\* driver.py:36-43  NSPCommand
PING == 0
INIT == 1
PEEK == 2
POKE == 3
DIAGNOSTIC == 4
CRC == 6
READ_FILE == 7
WRITE_FILE == 8

NSPCommand == {PING, INIT, PEEK, POKE, DIAGNOSTIC, CRC, READ_FILE, WRITE_FILE}

\* driver.py:173  0b10000000, the Poll bit of the control byte
POLL_BIT == 128
\* driver.py:236  0b00100000, the ACK bit of the control byte
ACK_BIT == 32
\* driver.py:222  the shortest reply: two addresses, control byte, two CRC bytes
MIN_REPLY_LEN == 5
\* Times are counted in tenths of a second, the scanner's read timeout of
\* 0.1 s being the shortest time in the program.
SECOND == 10
\* driver.py:195  the receive loop's overall deadline, 1.0 s
DEADLINE == 10
\* driver.py:136  serial.Serial(port, baud, timeout=1.0)
SER_TIMEOUT == 10

\* Python's | and & on non-negative integers
RECURSIVE BitOr(_, _)
BitOr(a, b) ==
    IF a = 0 THEN b
    ELSE IF b = 0 THEN a
    ELSE (IF a % 2 = 1 \/ b % 2 = 1 THEN 1 ELSE 0) + 2 * BitOr(a \div 2, b \div 2)

RECURSIVE BitAnd(_, _)
BitAnd(a, b) ==
    IF a = 0 \/ b = 0 THEN 0
    ELSE (IF a % 2 = 1 /\ b % 2 = 1 THEN 1 ELSE 0) + 2 * BitAnd(a \div 2, b \div 2)

\* A packet builder that appends the CRC most significant byte first.
build_packet_crc_be(wheel, host, cmd, data) ==
    LET packet_body == <<wheel, host>> \o <<BitOr(POLL_BIT, cmd)>> \o data
        crc == crc_func(packet_body)
    IN  packet_body \o <<(crc \div 256) % 256, crc % 256>>

\* A packet builder that puts the host address first and the wheel address second.
build_packet_swapped(wheel, host, cmd, data) ==
    LET packet_body == <<host, wheel>> \o <<BitOr(POLL_BIT, cmd)>> \o data
    IN  packet_body \o ToBytesLE2(crc_func(packet_body))

\* Step 1 of _send_and_receive: [wheel_addr][host_addr][control][payload][crc LE]
build_packet(wheel, host, cmd, data) ==
    LET control_byte == BitOr(POLL_BIT, cmd)
        packet_body == <<wheel, host>> \o <<control_byte>> \o data
    IN  packet_body \o ToBytesLE2(crc_func(packet_body))

\* A validation that never compares the received CRC with the computed one.
validate_reply_no_crc(frame) ==
    LET decoded == slip_decode(frame)
        pkt == decoded.val
        received_body == SubSeq(pkt, 1, Len(pkt) - 2)
    IN  IF decoded.kind \notin {"bytes", "None"} THEN decoded
        ELSE IF decoded.kind = "None" \/ pkt = <<>>
        THEN Raised("WheelError", "Received an invalid SLIP frame.")
        ELSE IF Len(pkt) < MIN_REPLY_LEN
        THEN Raised("WheelError", "Reply packet is too short")
        ELSE IF BitAnd(received_body[3], ACK_BIT) = 0
        THEN Raised("WheelNackError", "Wheel responded with NACK (command failed).")
        ELSE Bytes(SubSeq(received_body, 4, Len(received_body)))

\* A validation that never looks at the ACK bit.
validate_reply_no_nack(frame) ==
    LET decoded == slip_decode(frame)
        pkt == decoded.val
        n == Len(pkt)
        received_body == SubSeq(pkt, 1, n - 2)
        received_crc == SubSeq(pkt, n - 1, n)
    IN  IF decoded.kind \notin {"bytes", "None"} THEN decoded
        ELSE IF decoded.kind = "None" \/ pkt = <<>>
        THEN Raised("WheelError", "Received an invalid SLIP frame.")
        ELSE IF n < MIN_REPLY_LEN
        THEN Raised("WheelError", "Reply packet is too short")
        ELSE IF received_crc # ToBytesLE2(crc_func(received_body))
        THEN Raised("WheelCrcError", "CRC mismatch!")
        ELSE Bytes(SubSeq(received_body, 4, Len(received_body)))

\* A validation that returns the CRC bytes along with the payload.
validate_reply_keep_crc(frame) ==
    LET decoded == slip_decode(frame)
        pkt == decoded.val
        n == Len(pkt)
        received_body == SubSeq(pkt, 1, n - 2)
        received_crc == SubSeq(pkt, n - 1, n)
    IN  IF decoded.kind \notin {"bytes", "None"} THEN decoded
        ELSE IF decoded.kind = "None" \/ pkt = <<>>
        THEN Raised("WheelError", "Received an invalid SLIP frame.")
        ELSE IF n < MIN_REPLY_LEN
        THEN Raised("WheelError", "Reply packet is too short")
        ELSE IF received_crc # ToBytesLE2(crc_func(received_body))
        THEN Raised("WheelCrcError", "CRC mismatch!")
        ELSE IF BitAnd(received_body[3], ACK_BIT) = 0
        THEN Raised("WheelNackError", "Wheel responded with NACK (command failed).")
        ELSE Bytes(SubSeq(pkt, 4, n))

\* A validation that looks at the ACK bit before it checks the CRC.
validate_reply_ack_first(frame) ==
    LET decoded == slip_decode(frame)
        pkt == decoded.val
        n == Len(pkt)
        received_body == SubSeq(pkt, 1, n - 2)
        received_crc == SubSeq(pkt, n - 1, n)
    IN  IF decoded.kind \notin {"bytes", "None"} THEN decoded
        ELSE IF decoded.kind = "None" \/ pkt = <<>>
        THEN Raised("WheelError", "Received an invalid SLIP frame.")
        ELSE IF n < MIN_REPLY_LEN
        THEN Raised("WheelError", "Reply packet is too short")
        ELSE IF BitAnd(received_body[3], ACK_BIT) = 0
        THEN Raised("WheelNackError", "Wheel responded with NACK (command failed).")
        ELSE IF received_crc # ToBytesLE2(crc_func(received_body))
        THEN Raised("WheelCrcError", "CRC mismatch!")
        ELSE Bytes(SubSeq(received_body, 4, Len(received_body)))

\* Step 4 and 5 of _send_and_receive, from the second _slip_decode (line 212)
\* to the return: the outcome of the call for the frame the loop accepted.
validate_reply(frame) ==
    LET decoded == slip_decode(frame)
        pkt == decoded.val
        n == Len(pkt)
        received_body == SubSeq(pkt, 1, n - 2)
        received_crc == SubSeq(pkt, n - 1, n)
    IN  IF decoded.kind \notin {"bytes", "None"} THEN decoded
        ELSE IF decoded.kind = "None" \/ pkt = <<>>
        THEN Raised("WheelError", "Received an invalid SLIP frame.")
        ELSE IF n < MIN_REPLY_LEN
        THEN Raised("WheelError", "Reply packet is too short")
        ELSE IF received_crc # ToBytesLE2(crc_func(received_body))
        THEN Raised("WheelCrcError", "CRC mismatch!")
        ELSE IF BitAnd(received_body[3], ACK_BIT) = 0
        THEN Raised("WheelNackError", "Wheel responded with NACK (command failed).")
        ELSE Bytes(SubSeq(received_body, 4, Len(received_body)))

\* ------------------------------------------------------------------------
\* The high-level API
\* ------------------------------------------------------------------------

\* driver.py:48-52  WheelMode
WheelMode_IDLE == 0
WheelMode_SPEED == 3
WheelMode_TORQUE == 18
WheelMode_MOMENTUM == 17

\* driver.py:56-68  EDACFile
EDACFile_COMMAND_VALUE == 0
EDACFile_VBUS == 3
EDACFile_VCC == 8
EDACFile_MEAUSURED_CURRENT == 31
EDACFile_TEMP0 == 16
EDACFile_SPEED == 21
EDACFile_MOMENTUM == 22
EDACFile_INERTIA == 40

\* driver.py:252  start_address = 0x20050000
START_ADDRESS == 537198592
\* driver.py:256  self.ser.timeout = 3.0
INIT_TIMEOUT == 30

\* struct.pack('<I', n): four bytes, least significant first
pack_I(n) == <<n % 256, (n \div 256) % 256, (n \div 65536) % 256, (n \div 16777216) % 256>>

\* A float is <<s, m, e>>: the number (-1)^s * m * 2^e, with m odd, or m = 0
\* and e = 0 for zero.  An exponent of 1024 marks infinity (m = 0) and NaN.
RECURSIVE Reduced(_, _, _)
Reduced(s, m, e) ==
    IF m = 0 THEN <<s, 0, 0>>
    ELSE IF m % 2 = 0 THEN Reduced(s, m \div 2, e + 1)
    ELSE <<s, m, e>>

\* How many times m is doubled to reach the 24-bit significand of a float32.
RECURSIVE Shift24(_)
Shift24(m) == IF m >= 8388608 THEN 0 ELSE 1 + Shift24(2 * m)

\* struct.pack('<f', x) for x = <<s, m, e>> in float32's normal range: sign
\* bit, 8-bit exponent biased by 127, 23-bit fraction, least significant byte
\* first.
pack_f(x) ==
    IF x[2] = 0 THEN <<0, 0, 0, 128 * x[1]>>
    ELSE LET k == Shift24(x[2])
             frac == x[2] * (2 ^ k) - 8388608
             expo == x[3] - k + 150
         IN  <<frac % 256,
               (frac \div 256) % 256,
               (frac \div 65536) + 128 * (expo % 2),
               128 * x[1] + (expo \div 2)>>

\* struct.unpack('<f', b)
unpack_f(b) ==
    LET s == b[4] \div 128
        expo == (b[4] % 128) * 2 + (b[3] \div 128)
        frac == (b[3] % 128) * 65536 + b[2] * 256 + b[1]
    IN  IF expo = 255 THEN <<s, frac, 1024>>
        ELSE IF expo = 0 THEN Reduced(s, frac, -149)
        ELSE Reduced(s, 8388608 + frac, expo - 150)

\* driver.py:344  rad_s = rpm * (2.0 * math.pi / 60.0), as struct.pack('<f')
\* rounds it to a float32: 0.0, 0x40C90FDB for 60 rpm, 0xC0490FDB for -30 rpm.
rad_s(rpm) ==
    CASE rpm = 0 -> <<0, 0, 0>>
      [] rpm = 60 -> <<0, 13176795, -21>>
      [] rpm = -30 -> <<1, 13176795, -22>>

ReadMethods == {"read_vbus", "read_vcc", "read_speed", "read_momentum",
                "read_current", "read_inertia", "read_temperature"}

SetMethods == {"set_idle", "set_speed_rpm", "set_torque", "set_momentum"}

\* A range check that lets index 4 through.
valid_sensor_index_upto4(sensor_index) == 0 <= sensor_index /\ sensor_index <= 4

\* driver.py:397  0 <= sensor_index <= 3
valid_sensor_index(sensor_index) == 0 <= sensor_index /\ sensor_index <= 3

\* The EDACFile a read method asks for and compares the reply with.
file_of(m, a) ==
    CASE m = "read_vbus" -> EDACFile_VBUS
      [] m = "read_vcc" -> EDACFile_VCC
      [] m = "read_speed" -> EDACFile_SPEED
      [] m = "read_momentum" -> EDACFile_MOMENTUM
      [] m = "read_current" -> EDACFile_MEAUSURED_CURRENT
      [] m = "read_inertia" -> EDACFile_INERTIA
      [] m = "read_temperature" -> EDACFile_TEMP0 + a

\* Mode codes with SPEED packed by set_idle.
mode_of_idle_as_speed(m) ==
    CASE m = "set_idle" -> WheelMode_SPEED
      [] m = "set_speed_rpm" -> WheelMode_SPEED
      [] m = "set_torque" -> WheelMode_TORQUE
      [] m = "set_momentum" -> WheelMode_MOMENTUM

\* Mode codes with those of TORQUE and MOMENTUM exchanged.
mode_of_swapped(m) ==
    CASE m = "set_idle" -> WheelMode_IDLE
      [] m = "set_speed_rpm" -> WheelMode_SPEED
      [] m = "set_torque" -> WheelMode_MOMENTUM
      [] m = "set_momentum" -> WheelMode_TORQUE

\* The WheelMode a set method packs.
mode_of(m) ==
    CASE m = "set_idle" -> WheelMode_IDLE
      [] m = "set_speed_rpm" -> WheelMode_SPEED
      [] m = "set_torque" -> WheelMode_TORQUE
      [] m = "set_momentum" -> WheelMode_MOMENTUM

\* The setpoint a set method packs.
setpoint_of(m, a) ==
    CASE m = "set_idle" -> <<0, 0, 0>>
      [] m = "set_speed_rpm" -> rad_s(a)
      [] m = "set_torque" -> a
      [] m = "set_momentum" -> a

\* (command, payload) a public method passes to _send_and_receive; __exit__
\* passes what set_idle passes.
request_of(m, a) ==
    CASE m = "ping" -> <<PING, <<>>>>
      [] m = "initialize_application" -> <<INIT, pack_I(START_ADDRESS)>>
      [] m \in ReadMethods -> <<READ_FILE, <<file_of(m, a)>>>>
      [] m \in SetMethods ->
            <<WRITE_FILE,
              <<EDACFile_COMMAND_VALUE, mode_of(m)>> \o pack_f(setpoint_of(m, a))>>
      [] m = "__exit__" ->
            <<WRITE_FILE,
              <<EDACFile_COMMAND_VALUE, mode_of("set_idle")>>
                  \o pack_f(setpoint_of("set_idle", 0))>>

Str(s) == [kind |-> "str", val |-> s, msg |-> ""]
Float(x) == [kind |-> "float", val |-> x, msg |-> ""]

\* bytes.decode('ascii', errors='ignore'): bytes above 0x7F are dropped.
ascii_decode_ignore(b) == SelectSeq(b, LAMBDA c : c < 128)

\* struct.unpack('<Bf', reply) and the comparison of the file address, as in
\* every read method.
read_reply(file, reply) ==
    IF Len(reply) # 5
    THEN Raised("struct.error", "unpack requires a buffer of 5 bytes")
    ELSE IF reply[1] # file
    THEN Raised("WheelError", "Wheel replied with wrong file!")
    ELSE Float(unpack_f(SubSeq(reply, 2, 5)))

\* The exception classes of the model, all subclasses of Exception.
ExceptionKinds == {"IndexError", "WheelError", "WheelCrcError", "WheelNackError",
                   "AttributeError", "SerialException", "struct.error", "ValueError"}

\* An __exit__ that reaches close() only when set_idle returned.
exit_reaches_close_on_success(res) == res.kind = "bytes"

\* __exit__: whether control reaches self.close() after set_idle ended with
\* res: it returned, or it raised what "except Exception" catches.
exit_reaches_close(res) == res.kind = "bytes" \/ res.kind \in ExceptionKinds

\* The outcome of public method m(a) whose _send_and_receive ended with res.
facade_return(m, a, res) ==
    IF m = "__exit__" THEN (IF exit_reaches_close(res) THEN None ELSE res)
    ELSE IF res.kind # "bytes" THEN res
    ELSE IF m = "ping" THEN Str(ascii_decode_ignore(res.val))
    ELSE IF m \in ReadMethods THEN read_reply(file_of(m, a), res.val)
    ELSE IF m \in SetMethods \/ m = "initialize_application" THEN None
    ELSE res

\* ------------------------------------------------------------------------
\* Bounds and inputs of the exchange
\* ------------------------------------------------------------------------

\* Stray bytes the line may deliver in one session.
MaxNoise == 2
\* How far the clock is followed, in seconds after the request was written.
MaxElapsed == 1

\* (wheel address, host address): the broadcast PING of two_port_test.py and
\* the addresses of rw_wheel/config.py.
AddressConfigs == {<<0, 2>>, <<32, 17>>}

\* (command, payload) of the requests: ping, read_vbus, set_idle, and a POKE
\* whose payload holds both SLIP characters.
Requests == {<<PING, <<>>>>,
             <<READ_FILE, <<3>>>>,
             <<WRITE_FILE, <<0, 0, 0, 0, 0, 0>>>>,
             <<POKE, <<FEND, FESC>>>>}

\* Reply payloads: none, "OK", and one holding the delimiter.
ReplyData == {<<>>, <<79, 75>>, <<FEND>>}

\* Stray bytes: an ordinary byte, the delimiter and the escape marker.
NoiseBytes == {0, FEND, FESC}

WithCrc(body) == body \o ToBytesLE2(crc_func(body))

\* The packets a peer may answer request packet req with: the reply of the device
\* simulator (addresses swapped, Poll and ACK set, same command), and that reply
\* with one field wrong, a damaged CRC, or cut to fewer than five bytes.
ReplyPackets(req) ==
    LET cmd == req[3] % 32
        ack == POLL_BIT + ACK_BIT + cmd
        nack == POLL_BIT + cmd
        other == POLL_BIT + ACK_BIT + ((cmd + 1) % 32)
        good(d) == WithCrc(<<req[2], req[1], ack>> \o d)
        DamageAt(pkt, i) == [pkt EXCEPT ![i] = (@ + 1) % 256]
    IN  UNION { { good(d),
                  WithCrc(<<req[2], req[1], nack>> \o d),
                  WithCrc(<<req[2], req[1], other>> \o d),
                  WithCrc(<<(req[2] + 1) % 256, req[1], ack>> \o d),
                  WithCrc(<<req[2], (req[1] + 1) % 256, ack>> \o d),
                  DamageAt(good(d), Len(good(d))),
                  DamageAt(good(d), Len(good(d)) - 1),
                  DamageAt(WithCrc(<<req[2], req[1], nack>> \o d), 5 + Len(d)) }
              : d \in ReplyData }
        \cup { SubSeq(good(<<79, 75>>), 1, k) : k \in 0..4 }

\* ------------------------------------------------------------------------
\* Operations of a session
\* ------------------------------------------------------------------------

Init ==
    /\ input = <<>>
    /\ op = "none"
    /\ output = None
    /\ \E cfg \in AddressConfigs : wheel_addr = cfg[1] /\ host_addr = cfg[2]
    /\ ser_state = "none"
    /\ connections = 0
    /\ ser_timeout = 0
    /\ pc = "idle"
    /\ command = 0
    /\ payload = <<>>
    /\ written = <<>>
    /\ answered = 0
    /\ rxq = <<>>
    /\ noise = 0
    /\ frame_received = <<>>
    /\ packet_received = None
    /\ elapsed = 0
    /\ waited = 0
    /\ result = None
    /\ method = "none"
    /\ arg = 0
    /\ original_timeout = 0
    /\ ret = None
    /\ scope = "outside"
    /\ raised = None
    /\ delivered = None
    /\ scan_pc = "start"
    /\ address_to_test = -1
    /\ found_address = -1
    /\ escaped = None
    /\ bus = {}
    /\ peer_pc = "none"
    /\ peer_taken = 0
    /\ peer_buf = <<>>
    /\ peer_waited = 0

\* An open() that makes a connection whatever it holds.
opens_always(state) == TRUE

\* driver.py:135  if self.ser is None or not self.ser.is_open
opens(state) == state # "open"

\* ReactionWheel.open (and __enter__, which only calls it): serial.Serial
\* makes a connection that is open, with the read timeout of 1 s.
Open ==
    /\ pc = "idle"
    /\ IF opens(ser_state)
       THEN /\ ser_state' = "open"
            /\ connections' = connections + 1
            /\ ser_timeout' = SER_TIMEOUT
            /\ rxq' = <<>>
       ELSE UNCHANGED <<ser_state, connections, ser_timeout, rxq>>
    /\ UNCHANGED <<pureVars, scriptVars, wheel_addr, host_addr, pc, command, payload, written,
                   answered, noise, frame_received, packet_received, elapsed,
                   waited, result, facadeVars>>

\* ReactionWheel.close
Close ==
    /\ pc \in {"idle", "done"}
    /\ ser_state' = IF ser_state = "open" THEN "closed" ELSE ser_state
    /\ connections' = IF ser_state = "open" THEN connections - 1 ELSE connections
    /\ UNCHANGED <<pureVars, scriptVars, wheel_addr, host_addr, ser_timeout, pc, command, payload,
                   written, answered, rxq, noise, frame_received, packet_received,
                   elapsed, waited, result, facadeVars>>

\* A finally clause that leaves the read timeout as it is.
timeout_after_kept(m, state, original, current) == current

\* driver.py:261-263  the read timeout after public method m ended:
\* initialize_application's finally clause sets it to original_timeout when
\* there is a connection object.
timeout_after(m, state, original, current) ==
    IF m = "initialize_application" /\ state # "none" THEN original ELSE current

\* _send_and_receive ends with res, and public method m(a) that called it ends
\* too: initialize_application's finally restores the read timeout, __exit__
\* goes on to close().
Finish(m, a, res) ==
    /\ pc' = "done"
    /\ result' = res
    /\ ret' = facade_return(m, a, res)
    /\ ser_timeout' = timeout_after(m, ser_state, original_timeout', ser_timeout)
    /\ ser_state' = IF m = "__exit__" /\ exit_reaches_close(res) /\ ser_state = "open"
                    THEN "closed"
                    ELSE ser_state
    /\ connections' = IF m = "__exit__" /\ exit_reaches_close(res) /\ ser_state = "open"
                      THEN connections - 1
                      ELSE connections

\* A write that puts the frame on the line twice.
ser_write_twice(w, frame) == w \o <<frame, frame>>

\* driver.py:185  self.ser.write(frame_to_send)
ser_write(w, frame) == Append(w, frame)

\* Public method m(a) up to the first ser.read(1) of its _send_and_receive(cmd,
\* data): the packet is built, framed and written, the clock is started and the
\* buffer is emptied.  Without an open connection ser.write fails and nothing
\* is written; without a connection object initialize_application fails before.
Send(m, a, cmd, data) ==
    /\ pc = "idle"
    /\ method' = m
    /\ arg' = a
    /\ command' = cmd
    /\ payload' = data
    /\ original_timeout' = IF m = "initialize_application" /\ ser_state # "none"
                           THEN ser_timeout
                           ELSE original_timeout
    /\ IF ser_state = "open"
       THEN /\ written' = ser_write(written, slip_encode(build_packet(wheel_addr, host_addr, cmd, data)))
            /\ pc' = "read"
            /\ result' = None
            /\ ret' = None
            /\ ser_timeout' = IF m = "initialize_application" THEN INIT_TIMEOUT ELSE ser_timeout
            /\ UNCHANGED <<ser_state, connections>>
       ELSE /\ written' = written
            /\ Finish(m, a,
                      IF ser_state = "closed"
                      THEN Raised("SerialException", "Attempting to use a port that is not open")
                      ELSE IF m = "initialize_application"
                      THEN Raised("AttributeError", "'NoneType' object has no attribute 'timeout'")
                      ELSE Raised("AttributeError", "'NoneType' object has no attribute 'write'"))
    /\ frame_received' = <<>>
    /\ packet_received' = None
    /\ elapsed' = 0
    /\ waited' = 0
    /\ UNCHANGED <<pureVars, scriptVars, wheel_addr, host_addr, answered, rxq, noise>>

\* _send_and_receive(cmd, data) called on its own.
Call(cmd, data) == Send("_send_and_receive", 0, cmd, data)

\* Public method m(a) of the high-level API.  read_temperature checks its
\* argument before anything else.
Facade(m, a) ==
    IF m = "read_temperature" /\ ~valid_sensor_index(a)
    THEN /\ pc = "idle"
         /\ pc' = "done"
         /\ method' = m
         /\ arg' = a
         /\ ret' = Raised("ValueError", "sensor_index must be between 0 and 3")
         /\ UNCHANGED <<pureVars, scriptVars, wheel_addr, host_addr, ser_state, connections, ser_timeout,
                        command, payload, written, answered, rxq, noise,
                        frame_received, packet_received, elapsed, waited, result,
                        original_timeout>>
    ELSE Send(m, a, request_of(m, a)[1], request_of(m, a)[2])

\* ReactionWheel.__exit__: set_idle inside try/except Exception, then close().
Exit == Send("__exit__", 0, request_of("__exit__", 0)[1], request_of("__exit__", 0)[2])

\* The end of one iteration of the receive loop that did not break: the while
\* condition is evaluated again, and its else branch raises the timeout.
LoopAgain(buffer) ==
    /\ frame_received' = buffer
    /\ IF elapsed < DEADLINE
       THEN /\ pc' = "read"
            /\ UNCHANGED <<result, ret, ser_timeout, ser_state, connections>>
       ELSE Finish(method, arg, Raised("WheelError", "Timeout: No valid SLIP frame received."))
    /\ waited' = 0

\* ser.read(1) returns a byte: one iteration of the receive loop and, when the
\* loop breaks on a decodable frame, the validation that follows it.
ReadByte ==
    /\ pc = "read"
    /\ rxq # <<>>
    /\ UNCHANGED <<pureVars, scriptVars, wheel_addr, host_addr, command, payload, written,
                   answered, noise, elapsed, method, arg, original_timeout>>
    /\ rxq' = Tail(rxq)
    /\ LET buffer == Append(frame_received, Head(rxq))
           decoded == slip_decode(buffer)
       IN  IF Head(rxq) = FEND /\ Len(buffer) > 1
           THEN /\ packet_received' = IF decoded.kind \in {"bytes", "None"}
                                       THEN decoded
                                       ELSE packet_received
                /\ IF decoded.kind = "None"
                   THEN LoopAgain(<<>>)
                   ELSE /\ frame_received' = buffer
                        /\ waited' = 0
                        /\ Finish(method, arg, validate_reply(buffer))
           ELSE /\ packet_received' = packet_received
                /\ LoopAgain(buffer)

\* ser.read(1) returns nothing after ser.timeout seconds: the loop continues.
ReadNothing ==
    /\ pc = "read"
    /\ rxq = <<>>
    /\ waited >= ser_timeout
    /\ UNCHANGED <<pureVars, scriptVars, wheel_addr, host_addr, command, payload, written,
                   answered, rxq, noise, packet_received, elapsed, method, arg,
                   original_timeout>>
    /\ LoopAgain(frame_received)

\* The clock is followed until MaxElapsed seconds have passed and a blocked
\* ser.read(1) has returned.
ClockEnd ==
    IF ser_timeout > MaxElapsed * SECOND THEN ser_timeout ELSE MaxElapsed * SECOND

\* The time one step of the clock takes: a second, or the read timeout when
\* that is shorter.
TickLength == IF ser_timeout < SECOND THEN ser_timeout ELSE SECOND

\* Time passes while the caller is blocked in ser.read(1); a read that has
\* nothing to return waits no longer than ser.timeout.
Tick ==
    /\ pc = "read"
    /\ elapsed < ClockEnd
    /\ rxq # <<>> \/ waited < ser_timeout
    /\ elapsed' = elapsed + TickLength
    /\ waited' = waited + TickLength
    /\ UNCHANGED <<pureVars, scriptVars, wheel_addr, host_addr, ser_state, connections, ser_timeout, pc, command,
                   payload, written, answered, rxq, noise, frame_received,
                   packet_received, result, facadeVars>>

\* The peer answers the oldest request it has not answered yet.
PeerReply ==
    /\ ser_state = "open"
    /\ answered < Len(written)
    /\ \E pkt \in ReplyPackets(slip_decode(written[answered + 1]).val) :
           rxq' = rxq \o slip_encode(pkt)
    /\ answered' = answered + 1
    /\ UNCHANGED <<pureVars, scriptVars, wheel_addr, host_addr, ser_state, connections, ser_timeout, pc, command,
                   payload, written, noise, frame_received, packet_received,
                   elapsed, waited, result, facadeVars>>

\* The line delivers a stray byte.
LineNoise ==
    /\ ser_state = "open"
    /\ pc # "done"
    /\ noise < MaxNoise
    /\ \E b \in NoiseBytes : rxq' = Append(rxq, b)
    /\ noise' = noise + 1
    /\ UNCHANGED <<pureVars, scriptVars, wheel_addr, host_addr, ser_state, connections, ser_timeout, pc, command,
                   payload, written, answered, frame_received, packet_received,
                   elapsed, waited, result, facadeVars>>

Next ==
    \/ Open
    \/ Close
    \/ \E r \in Requests : Call(r[1], r[2])
    \/ ReadByte
    \/ ReadNothing
    \/ Tick
    \/ PeerReply
    \/ LineNoise

Spec == Init /\ [][Next]_vars

\* ------------------------------------------------------------------------
\* A session that uses the high-level API
\* ------------------------------------------------------------------------

\* rw_wheel/config.py:8-9
WHEEL_ADDRESS == 32
HOST_ADDRESS == 17

\* Floats: 0.0, 1.0 and -0.5.
FloatSample == {<<0, 0, 0>>, <<0, 1, 0>>, <<1, 1, -1>>}
\* Speeds in revolutions per minute.
RpmSample == {0, 60, -30}
\* Sensor indexes: the four sensors and the first index outside on each side.
SensorIndexes == {-1, 0, 1, 2, 3, 4}

\* (method, argument) of the calls of the high-level API.
FacadeCalls ==
    {<<"ping", 0>>, <<"initialize_application", 0>>, <<"set_idle", 0>>}
    \cup {<<m, 0>> : m \in ReadMethods \ {"read_temperature"}}
    \cup {<<"read_temperature", i>> : i \in SensorIndexes}
    \cup {<<"set_speed_rpm", r>> : r \in RpmSample}
    \cup {<<m, x>> : m \in {"set_torque", "set_momentum"}, x \in FloatSample}

\* The packets the wheel may answer request packet req with.  Acknowledged: a
\* PING with "OK" or with a byte above 0x7F inside it; a READ_FILE with the
\* file id and a float, with another file id and a float, or with a payload
\* that is not five bytes long; any other command with no payload.  Besides
\* these a NACK and an acknowledged reply with a damaged CRC.
WheelReplies(req) ==
    LET cmd == req[3] % 32
        ack == POLL_BIT + ACK_BIT + cmd
        nack == POLL_BIT + cmd
        other_file == (req[4] + 1) % 256
        data == CASE cmd = PING -> {<<79, 75>>, <<79, 200, 75>>}
                  [] cmd = READ_FILE ->
                        {<<req[4]>> \o pack_f(x) : x \in FloatSample}
                        \cup {<<other_file>> \o pack_f(<<0, 1, 0>>),
                              <<other_file>>,
                              <<req[4]>>}
                  [] OTHER -> {<<>>}
        nacked == WithCrc(<<req[2], req[1], nack>>)
        damaged == WithCrc(<<req[2], req[1], ack>>)
    IN  {WithCrc(<<req[2], req[1], ack>> \o d) : d \in data}
        \cup {nacked, [damaged EXCEPT ![5] = (@ + 1) % 256]}

InitFacade ==
    /\ Init
    /\ wheel_addr = WHEEL_ADDRESS
    /\ host_addr = HOST_ADDRESS

\* The wheel answers the oldest request it has not answered yet.
WheelReply ==
    /\ ser_state = "open"
    /\ answered < Len(written)
    /\ \E pkt \in WheelReplies(slip_decode(written[answered + 1]).val) :
           rxq' = rxq \o slip_encode(pkt)
    /\ answered' = answered + 1
    /\ UNCHANGED <<pureVars, scriptVars, wheel_addr, host_addr, ser_state, connections, ser_timeout, pc, command,
                   payload, written, noise, frame_received, packet_received,
                   elapsed, waited, result, facadeVars>>

NextFacade ==
    \/ Open
    \/ Close
    \/ \E c \in FacadeCalls : Facade(c[1], c[2])
    \/ Exit
    \/ ReadByte
    \/ ReadNothing
    \/ Tick
    \/ WheelReply

SpecFacade == InitFacade /\ [][NextFacade]_vars

\* ------------------------------------------------------------------------
\* A script that uses the driver in a with statement
\* ------------------------------------------------------------------------

\* Calls the body of the with statement may make before it ends.
MaxCalls == 2

\* (method, argument) of the calls of the body: those of tests/test_ping.py,
\* tests/test_initial.py and tests/test_max_torque.py, and a call that fails
\* before it writes.
SessionCalls ==
    {<<"ping", 0>>, <<"initialize_application", 0>>, <<"read_speed", 0>>,
     <<"set_torque", <<0, 1, 0>>>>, <<"read_temperature", 4>>}

\* What the with statement ends with when its body raised body (None when it
\* raised nothing) and __exit__ ended with exit: __exit__ has no return
\* statement, so it returns None and the body's exception is raised again; an
\* exception that leaves __exit__ itself takes its place.
with_outcome(body, exit) == IF exit.kind \in ExceptionKinds THEN exit ELSE body

InitSession == InitFacade

\* ReactionWheel.__enter__, driver.py:147  self.open()
EnterOpen ==
    /\ scope = "outside"
    /\ ser_state = "none"
    /\ Open

\* ReactionWheel.__enter__, driver.py:148  return self: the body begins
EnterReturn ==
    /\ scope = "outside"
    /\ ser_state = "open"
    /\ scope' = "inside"
    /\ UNCHANGED <<pureVars, driverVars, raised, delivered, scan_pc, address_to_test,
                   found_address, escaped, bus, peerVars>>

\* The body calls public method c[1] with argument c[2].
BodyCall(c) ==
    /\ scope = "inside"
    /\ raised = None
    /\ method # "__exit__"
    /\ Len(written) < MaxCalls
    /\ Facade(c[1], c[2])

\* The call returns to the body, or raises: the tests catch exceptions outside
\* the with statement only, so an exception ends the body.
BodyReturn ==
    /\ scope = "inside"
    /\ method # "__exit__"
    /\ pc = "done"
    /\ pc' = "idle"
    /\ raised' = IF ret.kind \in ExceptionKinds THEN ret ELSE None
    /\ UNCHANGED <<pureVars, wheel_addr, host_addr, ser_state, connections, ser_timeout, command,
                   payload, written, answered, rxq, noise, frame_received,
                   packet_received, elapsed, waited, result, facadeVars, scope,
                   delivered, scan_pc, address_to_test, found_address, escaped, bus, peerVars>>

\* The body has ended or raised: the with statement calls __exit__.
WithExit ==
    /\ scope = "inside"
    /\ Exit

\* __exit__ has ended: the with statement ends with the body's exception, if
\* there is one.
WithLeave ==
    /\ scope = "inside"
    /\ method = "__exit__"
    /\ pc = "done"
    /\ scope' = "exited"
    /\ delivered' = with_outcome(raised, ret)
    /\ UNCHANGED <<pureVars, driverVars, raised, scan_pc, address_to_test,
                   found_address, escaped, bus, peerVars>>

NextSession ==
    \/ EnterOpen
    \/ EnterReturn
    \/ \E c \in SessionCalls : BodyCall(c)
    \/ BodyReturn
    \/ WithExit
    \/ WithLeave
    \/ ReadByte
    \/ ReadNothing
    \/ Tick
    \/ WheelReply

SpecSession == InitSession /\ [][NextSession]_vars

\* ------------------------------------------------------------------------
\* address_scanner.py
\* ------------------------------------------------------------------------

\* config.py:9  HOST_ADDRESS = 0x02, the host address the scanner is run with
CONFIG_HOST_ADDRESS == 2
\* address_scanner.py:31  wheel.ser.timeout = 0.1
SCAN_TIMEOUT == 1
\* address_scanner.py:34  for address_to_test in range(256)
ADDRESS_COUNT == 256

\* The host addresses the scanner is run with: that of config.py and that of
\* rw_wheel/config.py.
ScanHosts == {CONFIG_HOST_ADDRESS, HOST_ADDRESS}

\* What a device answers a PING with: an acknowledged reply, a NACK, a reply
\* with a damaged CRC, a packet shorter than five bytes, or a frame that ends
\* on an escape byte.
DeviceBehaviours == {"ack", "nack", "crc", "short", "malformed"}

\* The buses scanned: an empty one; one wheel at 0x20, at the first or at the
\* last address; a wheel at each of the two host addresses; a device that
\* fails in one of the four ways followed by a wheel at a higher address.
BusSample ==
    {{}, {<<32, "ack">>}, {<<0, "ack">>}, {<<255, "ack">>},
     {<<CONFIG_HOST_ADDRESS, "ack">>}, {<<HOST_ADDRESS, "ack">>},
     {<<3, "nack">>, <<5, "ack">>}, {<<3, "crc">>, <<5, "ack">>},
     {<<3, "short">>, <<4, "ack">>}, {<<3, "malformed">>, <<4, "ack">>}}

\* The frame a device that behaves as behaviour answers request packet req with.
device_frame(behaviour, req) ==
    LET ack == WithCrc(<<req[2], req[1], POLL_BIT + ACK_BIT + PING>> \o <<79, 75>>)
    IN  CASE behaviour = "ack" -> slip_encode(ack)
          [] behaviour = "nack" -> slip_encode(WithCrc(<<req[2], req[1], POLL_BIT + PING>>))
          [] behaviour = "crc" -> slip_encode([ack EXCEPT ![Len(ack)] = (@ + 1) % 256])
          [] behaviour = "short" -> slip_encode(<<req[2], req[1], POLL_BIT + ACK_BIT + PING>>)
          [] behaviour = "malformed" -> <<FEND, req[2], FESC, FEND>>

\* A loop that probes the host address too.
skips_none(address, host) == FALSE

\* address_scanner.py:36  if address_to_test == wheel.host_addr: continue
skips(address, host) == address = host

\* An except clause that catches the driver's timeout only.
scanner_catches_timeout(res) ==
    res.kind = "WheelError" /\ res.msg = "Timeout: No valid SLIP frame received."

\* An except clause that catches nothing.
scanner_catches_nothing(res) == FALSE

\* address_scanner.py:56  except Exception
scanner_catches(res) == res.kind \in ExceptionKinds

\* Where the script is after a probe that ended with res: the loop goes on
\* after an exception that was caught (address_scanner.py:57); a ping that
\* returned breaks out of it (address_scanner.py:54) and an exception that was
\* not caught leaves it.
loop_after(res) ==
    IF res.kind \in ExceptionKinds /\ scanner_catches(res) THEN "loop" ELSE "ended"

\* A finally clause that leaves the connection as it is.
scan_finally_no_close(state) == state

\* address_scanner.py:62-64  finally: if wheel and wheel.ser and
\* wheel.ser.is_open: wheel.close()
scan_finally(state) == IF state = "open" THEN "closed" ELSE state

\* The connections left open once a finally clause took the connection from
\* state before to state after: closing the open one leaves one fewer.
open_after(before, after, n) == IF before = "open" /\ after # "open" THEN n - 1 ELSE n

\* address_scanner.py:19-28: the wheel object is constructed with address 0x00.
InitScan ==
    /\ input = <<>>
    /\ op = "none"
    /\ output = None
    /\ wheel_addr = 0
    /\ host_addr \in ScanHosts
    /\ ser_state = "none"
    /\ connections = 0
    /\ ser_timeout = 0
    /\ pc = "idle"
    /\ command = 0
    /\ payload = <<>>
    /\ written = <<>>
    /\ answered = 0
    /\ rxq = <<>>
    /\ noise = 0
    /\ frame_received = <<>>
    /\ packet_received = None
    /\ elapsed = 0
    /\ waited = 0
    /\ result = None
    /\ method = "none"
    /\ arg = 0
    /\ original_timeout = 0
    /\ ret = None
    /\ scope = "outside"
    /\ raised = None
    /\ delivered = None
    /\ scan_pc = "start"
    /\ address_to_test = -1
    /\ found_address = -1
    /\ escaped = None
    /\ bus \in BusSample
    /\ peer_pc = "none"
    /\ peer_taken = 0
    /\ peer_buf = <<>>
    /\ peer_waited = 0

\* address_scanner.py:29  wheel.open()
ScanOpen ==
    /\ scan_pc = "start"
    /\ ser_state = "none"
    /\ Open

\* address_scanner.py:29  wheel.open() fails: serial.Serial raises, wheel.ser
\* stays None and the finally clause has nothing to close.
ScanOpenFails ==
    /\ scan_pc = "start"
    /\ ser_state = "none"
    /\ scan_pc' = "ended"
    /\ escaped' = Raised("SerialException", "could not open port")
    /\ UNCHANGED <<pureVars, driverVars, scope, raised, delivered, address_to_test,
                   found_address, bus, peerVars>>

\* address_scanner.py:31  wheel.ser.timeout = 0.1
ScanSetTimeout ==
    /\ scan_pc = "start"
    /\ ser_state = "open"
    /\ ser_timeout' = SCAN_TIMEOUT
    /\ scan_pc' = "loop"
    /\ UNCHANGED <<pureVars, wheel_addr, host_addr, ser_state, connections, pc, command, payload,
                   written, answered, rxq, noise, frame_received, packet_received,
                   elapsed, waited, result, facadeVars, scope, raised, delivered,
                   address_to_test, found_address, escaped, bus, peerVars>>

\* address_scanner.py:34-41: the loop takes the next address, skips it or
\* makes it the wheel's address; after the last address the else clause and
\* the finally clause run.
ScanIterate ==
    /\ scan_pc = "loop"
    /\ pc = "idle"
    /\ IF address_to_test + 1 < ADDRESS_COUNT
       THEN /\ address_to_test' = address_to_test + 1
            /\ IF skips(address_to_test + 1, host_addr)
               THEN UNCHANGED <<wheel_addr, scan_pc>>
               ELSE wheel_addr' = address_to_test + 1 /\ scan_pc' = "probe"
            /\ UNCHANGED <<ser_state, connections>>
       ELSE /\ scan_pc' = "ended"
            /\ ser_state' = scan_finally(ser_state)
            /\ connections' = open_after(ser_state, scan_finally(ser_state), connections)
            /\ UNCHANGED <<wheel_addr, address_to_test>>
    /\ UNCHANGED <<pureVars, host_addr, ser_timeout, pc, command, payload, written,
                   answered, rxq, noise, frame_received, packet_received, elapsed,
                   waited, result, facadeVars, scope, raised, delivered,
                   found_address, escaped, bus, peerVars>>

\* address_scanner.py:44  identity = wheel.ping()
ScanPing ==
    /\ scan_pc = "probe"
    /\ Facade("ping", 0)

\* address_scanner.py:44-57: the ping has returned or raised.
ScanHandle ==
    /\ scan_pc = "probe"
    /\ pc = "done"
    /\ pc' = "idle"
    /\ scan_pc' = loop_after(ret)
    /\ found_address' = IF ret.kind \in ExceptionKinds THEN found_address ELSE address_to_test
    /\ escaped' = IF ret.kind \in ExceptionKinds /\ ~scanner_catches(ret) THEN ret ELSE escaped
    /\ ser_state' = IF loop_after(ret) = "ended" THEN scan_finally(ser_state) ELSE ser_state
    /\ connections' = IF loop_after(ret) = "ended"
                      THEN open_after(ser_state, scan_finally(ser_state), connections)
                      ELSE connections
    /\ UNCHANGED <<pureVars, wheel_addr, host_addr, ser_timeout, command, payload,
                   written, answered, rxq, noise, frame_received, packet_received,
                   elapsed, waited, result, facadeVars, scope, raised, delivered,
                   address_to_test, bus, peerVars>>

\* The user interrupts the script while it waits for a reply: the
\* KeyboardInterrupt is no Exception, so it leaves the loop and the try
\* statement, whose finally clause runs.
ScanInterrupt ==
    /\ scan_pc = "probe"
    /\ pc = "read"
    /\ pc' = "done"
    /\ scan_pc' = "ended"
    /\ escaped' = Raised("KeyboardInterrupt", "")
    /\ ser_state' = scan_finally(ser_state)
    /\ connections' = open_after(ser_state, scan_finally(ser_state), connections)
    /\ UNCHANGED <<pureVars, wheel_addr, host_addr, ser_timeout, command, payload,
                   written, answered, rxq, noise, frame_received, packet_received,
                   elapsed, waited, result, facadeVars, scope, raised, delivered,
                   address_to_test, found_address, bus, peerVars>>

\* The device at the address probed last answers the request, while the probe
\* waits for it or after the probe was given up.
DeviceReply ==
    /\ scan_pc \in {"probe", "loop"}
    /\ answered < Len(written)
    /\ \E d \in bus :
           /\ d[1] = slip_decode(written[Len(written)]).val[1]
           /\ rxq' = rxq \o device_frame(d[2], slip_decode(written[Len(written)]).val)
    /\ answered' = Len(written)
    /\ UNCHANGED <<pureVars, scriptVars, wheel_addr, host_addr, ser_state, connections, ser_timeout,
                   pc, command, payload, written, noise, frame_received,
                   packet_received, elapsed, waited, result, facadeVars>>

NextScan ==
    \/ ScanOpen
    \/ ScanOpenFails
    \/ ScanSetTimeout
    \/ ScanIterate
    \/ ScanPing
    \/ ScanHandle
    \/ ScanInterrupt
    \/ DeviceReply
    \/ ReadByte
    \/ ReadNothing
    \/ Tick

SpecScan == InitScan /\ [][NextScan]_vars

\* ------------------------------------------------------------------------
\* tests/test_00_adapter_to_adapter.py: the driver on one adapter and a device
\* simulator thread on the adapter wired to it
\* ------------------------------------------------------------------------

\* src/config.py:8  WHEEL_ADDRESS, the test's DEVICE_ADDR
CONFIG_WHEEL_ADDRESS == 1

\* test_00_adapter_to_adapter.py:70  reply_data = b"Simulated Wheel OK"
SIMULATED_WHEEL_OK ==
    <<83, 105, 109, 117, 108, 97, 116, 101, 100, 32, 87, 104, 101, 101, 108, 32, 79, 75>>

\* The bytes of the frames w, in the order they go over the line.
RECURSIVE line_bytes(_)
line_bytes(w) == IF w = <<>> THEN <<>> ELSE Head(w) \o line_bytes(Tail(w))

\* What the thread at the other end of the line never changes.
callerVars == <<pureVars, wheel_addr, host_addr, ser_state, connections, ser_timeout,
                pc, command, payload, written, noise, frame_received,
                packet_received, elapsed, waited, result, facadeVars, scope,
                raised, delivered, scan_pc, address_to_test, found_address,
                escaped, bus>>

\* test_00_adapter_to_adapter.py:50-78: what the simulator does with the
\* chunk its read_until returned.  It writes a reply when the chunk decodes
\* to a packet of at least five bytes with a valid CRC that is a PING to
\* DEVICE_ADDR, and nothing otherwise; an exception of the decoder ends the
\* thread (line 80).
simulator_reply(chunk) ==
    LET decoded == slip_decode(chunk)
        packet == decoded.val
        n == Len(packet)
        body == SubSeq(packet, 1, n - 2)
    IN  IF decoded.kind \in ExceptionKinds THEN decoded
        ELSE IF decoded.kind = "None" \/ packet = <<>> \/ n < 5 THEN None
        ELSE IF ToBytesLE2(crc_func(body)) # SubSeq(packet, n - 1, n) THEN None
        ELSE IF body[1] = CONFIG_WHEEL_ADDRESS /\ body[3] % 32 = PING
        THEN Bytes(slip_encode(WithCrc(<<body[2], body[1], POLL_BIT + ACK_BIT + PING>>
                                       \o SIMULATED_WHEEL_OK)))
        ELSE None

\* test_00_adapter_to_adapter.py:92-97: the wheel object is constructed with
\* the addresses of src/config.py; the simulator thread has not started.
InitAdapter ==
    /\ input = <<>>
    /\ op = "none"
    /\ output = None
    /\ wheel_addr = CONFIG_WHEEL_ADDRESS
    /\ host_addr = CONFIG_HOST_ADDRESS
    /\ ser_state = "none"
    /\ connections = 0
    /\ ser_timeout = 0
    /\ pc = "idle"
    /\ command = 0
    /\ payload = <<>>
    /\ written = <<>>
    /\ answered = 0
    /\ rxq = <<>>
    /\ noise = 0
    /\ frame_received = <<>>
    /\ packet_received = None
    /\ elapsed = 0
    /\ waited = 0
    /\ result = None
    /\ method = "none"
    /\ arg = 0
    /\ original_timeout = 0
    /\ ret = None
    /\ scope = "outside"
    /\ raised = None
    /\ delivered = None
    /\ scan_pc = "start"
    /\ address_to_test = -1
    /\ found_address = -1
    /\ escaped = None
    /\ bus = {}
    /\ peer_pc = "none"
    /\ peer_taken = 0
    /\ peer_buf = <<>>
    /\ peer_waited = 0

\* test_00_adapter_to_adapter.py:43, 116-117: the thread starts and opens its
\* port.
SimStart ==
    /\ peer_pc = "none"
    /\ peer_pc' = "read_until"
    /\ UNCHANGED <<callerVars, rxq, answered, peer_taken, peer_buf, peer_waited>>

\* test_00_adapter_to_adapter.py:46-78: read_until reads one byte more of
\* what the host wrote.  On the delimiter it returns what it has collected,
\* the delimiter included, and the rest of the loop body runs on that chunk.
SimReadByte ==
    /\ peer_pc = "read_until"
    /\ peer_taken < Len(line_bytes(written))
    /\ peer_taken' = peer_taken + 1
    /\ LET b == line_bytes(written)[peer_taken + 1]
           chunk == Append(peer_buf, b)
           reply == simulator_reply(chunk)
       IN  IF b # FEND
           THEN /\ peer_buf' = chunk
                /\ UNCHANGED <<rxq, answered, peer_pc>>
           ELSE /\ peer_buf' = <<>>
                /\ rxq' = IF reply.kind = "bytes" THEN rxq \o reply.val ELSE rxq
                /\ answered' = IF reply.kind = "bytes" THEN answered + 1 ELSE answered
                /\ peer_pc' = IF reply.kind \in ExceptionKinds THEN "finished" ELSE peer_pc
    /\ UNCHANGED <<callerVars, peer_waited>>

\* test_00_adapter_to_adapter.py:45, 112: the host has set
\* test_complete_event and the loop condition ends the thread.
SimStop ==
    /\ peer_pc = "read_until"
    /\ peer_buf = <<>>
    /\ scope = "exited"
    /\ peer_pc' = "finished"
    /\ UNCHANGED <<callerVars, rxq, answered, peer_taken, peer_buf, peer_waited>>

\* test_00_adapter_to_adapter.py:99, 118: host_test enters its with statement
\* after main gave the thread two seconds to open its port.
AdapterEnter ==
    /\ peer_pc # "none"
    /\ EnterOpen

\* test_00_adapter_to_adapter.py:100  response_str = host_wheel.ping()
AdapterPing ==
    /\ method = "none"
    /\ BodyCall(<<"ping", 0>>)

\* test_00_adapter_to_adapter.py:99-110: the body has ended, with the verdict
\* printed or with the exception of the ping.
AdapterExit ==
    /\ method = "ping"
    /\ WithExit

\* A second passes for the host: the simulator, which needs milliseconds for
\* the bytes it has been sent, has read them all by then.
AdapterTick ==
    /\ peer_taken = Len(line_bytes(written))
    /\ Tick

NextAdapter ==
    \/ SimStart
    \/ SimReadByte
    \/ SimStop
    \/ AdapterEnter
    \/ EnterReturn
    \/ AdapterPing
    \/ BodyReturn
    \/ AdapterExit
    \/ WithLeave
    \/ ReadByte
    \/ ReadNothing
    \/ AdapterTick
    \/ LineNoise

SpecAdapter == InitAdapter /\ [][NextAdapter]_vars

\* ------------------------------------------------------------------------
\* tests/two_port_test.py: a host thread and a wheel emulator thread, each on
\* its own adapter, with the helpers the script defines for itself
\* ------------------------------------------------------------------------

\* two_port_test.py:73  time.sleep(1), in tenths of a second
HOST_SLEEP == 10
\* two_port_test.py:76  serial.Serial(port_name, BAUD_RATE, timeout=2.0)
HOST_TIMEOUT == 20
\* two_port_test.py:51  serial.Serial(port_name, BAUD_RATE, timeout=0.5)
EMULATOR_TIMEOUT == 5

\* two_port_test.py:77  packet_to_send = b'\x00\x02\x80\x8b\x8e'
PACKET_TO_SEND == <<0, 2, 128, 139, 142>>

\* two_port_test.py:63  reply_payload = b"EMULATOR_OK"
EMULATOR_OK == <<69, 77, 85, 76, 65, 84, 79, 82, 95, 79, 75>>

\* How the script ends when it prints that the test failed.
Failed(m) == [kind |-> "failed", val |-> <<>>, msg |-> m]

\* two_port_test.py:21-37  the script's own _slip_decode: the driver's, but an
\* escape byte at the end of the frame gives None (lines 30, 33) where the
\* driver's decoder raises.
checked_slip_decode(frame) ==
    IF slip_decode(frame).kind = "IndexError" THEN None ELSE slip_decode(frame)

\* two_port_test.py:57-67: what the emulator does with the frame content its
\* second read_until returned.  A packet that is not empty and whose command
\* bits are 0 is answered; a packet of one or two bytes ends the thread with
\* the IndexError of command_packet[2].
emulator_reply(frame_content) ==
    LET decoded == checked_slip_decode(<<FEND>> \o frame_content)
        command_packet == decoded.val
    IN  IF decoded.kind = "None" \/ command_packet = <<>> THEN None
        ELSE IF Len(command_packet) < 3 THEN Raised("IndexError", "index out of range")
        ELSE IF command_packet[3] % 32 = 0
        THEN Bytes(slip_encode(WithCrc(<<command_packet[2], command_packet[1],
                                         POLL_BIT + ACK_BIT>> \o EMULATOR_OK)))
        ELSE None

\* two_port_test.py:87-111: how host_logic ends with the frame content its
\* second read_until returned.
host_verdict(frame_content) ==
    LET decoded == checked_slip_decode(<<FEND>> \o frame_content)
        reply_packet == decoded.val
        n == Len(reply_packet)
        received_body == SubSeq(reply_packet, 1, n - 2)
        received_crc == SubSeq(reply_packet, n - 1, n)
    IN  IF frame_content = <<>> THEN Failed("HOST TIMED OUT")
        ELSE IF decoded.kind = "None" \/ reply_packet = <<>>
        THEN Failed("HOST RECEIVED INVALID FRAME")
        ELSE IF received_crc # ToBytesLE2(crc_func(received_body))
        THEN Failed("CRC MISMATCH")
        ELSE Bytes(SubSeq(received_body, 4, Len(received_body)))

\* two_port_test.py:117-124: both threads are about to start.
InitLoopback ==
    /\ input = <<>>
    /\ op = "none"
    /\ output = None
    /\ wheel_addr = PACKET_TO_SEND[1]
    /\ host_addr = PACKET_TO_SEND[2]
    /\ ser_state = "none"
    /\ connections = 0
    /\ ser_timeout = 0
    /\ pc = "sleep"
    /\ command = 0
    /\ payload = <<>>
    /\ written = <<>>
    /\ answered = 0
    /\ rxq = <<>>
    /\ noise = 0
    /\ frame_received = <<>>
    /\ packet_received = None
    /\ elapsed = 0
    /\ waited = 0
    /\ result = None
    /\ method = "none"
    /\ arg = 0
    /\ original_timeout = 0
    /\ ret = None
    /\ scope = "outside"
    /\ raised = None
    /\ delivered = None
    /\ scan_pc = "start"
    /\ address_to_test = -1
    /\ found_address = -1
    /\ escaped = None
    /\ bus = {}
    /\ peer_pc = "none"
    /\ peer_taken = 0
    /\ peer_buf = <<>>
    /\ peer_waited = 0

\* two_port_test.py:51-54: the emulator opens its port and calls the first
\* read_until.
EmulatorStart ==
    /\ peer_pc = "none"
    /\ peer_pc' = "first"
    /\ UNCHANGED <<callerVars, rxq, answered, peer_taken, peer_buf, peer_waited>>

\* two_port_test.py:54-67: the read_until the emulator is in reads one byte
\* more of what the host wrote.  On the delimiter the call returns: what the
\* first call returns is dropped, what the second returns is the frame content.
EmulatorReadByte ==
    /\ peer_pc \in {"first", "second"}
    /\ peer_taken < Len(line_bytes(written))
    /\ peer_taken' = peer_taken + 1
    /\ LET b == line_bytes(written)[peer_taken + 1]
           reply == emulator_reply(Append(peer_buf, b))
       IN  IF b # FEND
           THEN /\ peer_buf' = Append(peer_buf, b)
                /\ UNCHANGED <<rxq, answered, peer_pc, peer_waited>>
           ELSE /\ peer_buf' = <<>>
                /\ peer_waited' = 0
                /\ IF peer_pc = "first"
                   THEN /\ peer_pc' = "second"
                        /\ UNCHANGED <<rxq, answered>>
                   ELSE /\ peer_pc' = IF reply.kind \in ExceptionKinds
                                      THEN "finished"
                                      ELSE "first"
                        /\ rxq' = IF reply.kind = "bytes" THEN rxq \o reply.val ELSE rxq
                        /\ answered' = IF reply.kind = "bytes" THEN answered + 1 ELSE answered
    /\ UNCHANGED callerVars

\* two_port_test.py:54-56: the read_until the emulator is in returns after
\* half a second without a byte; after the first the second is called, after
\* the second the loop starts again.
EmulatorTimeout ==
    /\ peer_pc \in {"first", "second"}
    /\ peer_taken = Len(line_bytes(written))
    /\ peer_waited >= EMULATOR_TIMEOUT
    /\ peer_pc' = IF peer_pc = "first" THEN "second" ELSE "first"
    /\ peer_waited' = 0
    /\ peer_buf' = <<>>
    /\ UNCHANGED <<callerVars, rxq, answered, peer_taken>>

\* two_port_test.py:73-85: after its sleep the host opens its port, writes
\* the PING frame and calls the first read_until.
HostWrite ==
    /\ pc = "sleep"
    /\ elapsed >= HOST_SLEEP
    /\ peer_pc # "none"
    /\ ser_state' = "open"
    /\ connections' = connections + 1
    /\ ser_timeout' = HOST_TIMEOUT
    /\ written' = ser_write(written, slip_encode(PACKET_TO_SEND))
    /\ pc' = "first"
    /\ waited' = 0
    /\ frame_received' = <<>>
    /\ UNCHANGED <<pureVars, scriptVars, wheel_addr, host_addr, command, payload,
                   answered, rxq, noise, packet_received, elapsed, result, facadeVars>>

\* How the host goes on when the read_until it is in has returned chunk.
HostReturn(chunk) ==
    /\ waited' = 0
    /\ IF pc = "first"
       THEN /\ pc' = "second"
            /\ frame_received' = <<>>
            /\ result' = result
       ELSE /\ pc' = "done"
            /\ frame_received' = chunk
            /\ result' = host_verdict(chunk)

\* two_port_test.py:85-111: the read_until the host is in reads one byte of
\* the reply, and returns on the delimiter.
HostReadByte ==
    /\ pc \in {"first", "second"}
    /\ rxq # <<>>
    /\ rxq' = Tail(rxq)
    /\ IF Head(rxq) # FEND
       THEN /\ frame_received' = Append(frame_received, Head(rxq))
            /\ UNCHANGED <<pc, waited, result>>
       ELSE HostReturn(Append(frame_received, Head(rxq)))
    /\ UNCHANGED <<pureVars, scriptVars, wheel_addr, host_addr, ser_state, connections,
                   ser_timeout, command, payload, written, answered, noise,
                   packet_received, elapsed, facadeVars>>

\* two_port_test.py:85-89: the read_until the host is in returns after two
\* seconds with what it has.
HostTimeout ==
    /\ pc \in {"first", "second"}
    /\ rxq = <<>>
    /\ waited >= ser_timeout
    /\ HostReturn(frame_received)
    /\ UNCHANGED <<pureVars, scriptVars, wheel_addr, host_addr, ser_state, connections,
                   ser_timeout, command, payload, written, answered, rxq, noise,
                   packet_received, elapsed, facadeVars>>

\* A tenth of a second passes, for the host's sleep and for every read_until
\* that has no byte to read; a thread that has bytes to read, or whose
\* read_until has reached its timeout, goes on before that.
LoopbackTick ==
    /\ pc # "done"
    /\ rxq = <<>>
    /\ peer_taken = Len(line_bytes(written))
    /\ pc \in {"first", "second"} => waited < ser_timeout
    /\ peer_pc \in {"first", "second"} => peer_waited < EMULATOR_TIMEOUT
    /\ pc = "sleep" => (elapsed < HOST_SLEEP \/ peer_pc \in {"first", "second"})
    /\ elapsed' = IF pc = "sleep" /\ elapsed < HOST_SLEEP THEN elapsed + 1 ELSE elapsed
    /\ waited' = IF pc \in {"first", "second"} THEN waited + 1 ELSE waited
    /\ peer_waited' = IF peer_pc \in {"first", "second"} THEN peer_waited + 1 ELSE peer_waited
    /\ UNCHANGED <<pureVars, wheel_addr, host_addr, ser_state, connections, ser_timeout,
                   pc, command, payload, written, answered, rxq, noise,
                   frame_received, packet_received, result, facadeVars, scope,
                   raised, delivered, scan_pc, address_to_test, found_address,
                   escaped, bus, peer_pc, peer_taken, peer_buf>>

NextLoopback ==
    \/ EmulatorStart
    \/ EmulatorReadByte
    \/ EmulatorTimeout
    \/ HostWrite
    \/ HostReadByte
    \/ HostTimeout
    \/ LoopbackTick

SpecLoopback == InitLoopback /\ [][NextLoopback]_vars

\* ------------------------------------------------------------------------
\* find_rw_address.py: the probe that sweeps the addresses with its own
\* framing helpers, without the driver
\* ------------------------------------------------------------------------

\* find_rw_address.py:79  src_host = 0x11
SRC_HOST == 17
\* find_rw_address.py:82  serial.Serial(port, baud, timeout=0.2)
PROBE_SER_TIMEOUT == 2
\* find_rw_address.py:42  read_frame(ser, timeout=0.5)
READ_FRAME_TIMEOUT == 5
\* find_rw_address.py:97-117  the requests main sends before the sweep
SWEEP_START == 11
\* find_rw_address.py:122  for dest in range(256)
SWEEP_COUNT == 256

\* find_rw_address.py:96-123: request number i of main: the broadcast groups
\* with Poll set and without, INIT and PING to address 0, the PING after four
\* extra delimiters, then the sweep.
probe_plan(i) ==
    LET groups == <<0, 16, 32, 48>>
        request(d, c, data, pre) == [dest |-> d, ctl |-> c, data |-> data, preamble |-> pre]
    IN  IF i <= 4 THEN request(groups[i], POLL_BIT, <<>>, FALSE)
        ELSE IF i <= 8 THEN request(groups[i - 4], 0, <<>>, FALSE)
        ELSE IF i = 9 THEN request(0, POLL_BIT + INIT, <<0, 0, 5, 32>>, FALSE)
        ELSE IF i = 10 THEN request(0, POLL_BIT, <<>>, FALSE)
        ELSE IF i = 11 THEN request(0, POLL_BIT, <<>>, TRUE)
        ELSE request(i - SWEEP_START - 1, POLL_BIT, <<>>, FALSE)

\* find_rw_address.py:21-40  build_frame, with the script's slip_encode
build_frame(dest, src, ctl, data, preamble) ==
    (IF preamble THEN <<FEND, FEND, FEND, FEND>> ELSE <<>>)
        \o slip_encode(WithCrc(<<dest, src, ctl>> \o data))

\* find_rw_address.py:57-63  the loop of the script's slip_decode: whatever
\* follows an escape byte that is not TFEND gives FESC, and an escape byte at
\* the end of the data raises IndexError.
RECURSIVE probe_unescape(_, _, _)
probe_unescape(data, i, out) ==
    IF i > Len(data) THEN Bytes(out)
    ELSE IF data[i] = FESC
         THEN IF i + 1 > Len(data) THEN Raised("IndexError", "index out of range")
              ELSE probe_unescape(data, i + 2,
                                  Append(out, IF data[i + 1] = TFEND THEN FEND ELSE FESC))
         ELSE probe_unescape(data, i + 1, Append(out, data[i]))

\* find_rw_address.py:52-64  slip_decode
probe_slip_decode(frame) ==
    IF frame = <<>> \/ frame[1] # FEND \/ frame[Len(frame)] # FEND
    THEN None
    ELSE probe_unescape(SubSeq(frame, 2, Len(frame) - 1), 1, <<>>)

\* What tx_and_wait returns: True or False.
Returned(b) == [kind |-> "bool", val |-> <<>>, msg |-> IF b THEN "True" ELSE "False"]

\* find_rw_address.py:88-94: what tx_and_wait returns for what read_frame
\* returned (the empty sequence stands for None).
tx_and_wait(reply) ==
    LET pkt == probe_slip_decode(reply)
    IN  IF reply = <<>> THEN Returned(FALSE)
        ELSE IF pkt.kind \in ExceptionKinds THEN pkt
        ELSE Returned(pkt.kind = "bytes" /\ pkt.val # <<>> /\ Len(pkt.val) >= 5)

\* The buses probed: an empty one, and one wheel that answers at the
\* broadcast address, at 0x05 or at 0x20.
ProbeBuses == {{}, {<<0, "ack">>}, {<<5, "ack">>}, {<<32, "ack">>}}

\* find_rw_address.py:77-82: the port is open with a read timeout of 0.2 s.
InitProbe ==
    /\ input = <<>>
    /\ op = "none"
    /\ output = None
    /\ wheel_addr = 0
    /\ host_addr = SRC_HOST
    /\ ser_state = "open"
    /\ connections = 1
    /\ ser_timeout = PROBE_SER_TIMEOUT
    /\ pc = "idle"
    /\ command = 0
    /\ payload = <<>>
    /\ written = <<>>
    /\ answered = 0
    /\ rxq = <<>>
    /\ noise = 0
    /\ frame_received = <<>>
    /\ packet_received = None
    /\ elapsed = 0
    /\ waited = 0
    /\ result = None
    /\ method = "none"
    /\ arg = 0
    /\ original_timeout = 0
    /\ ret = None
    /\ scope = "outside"
    /\ raised = None
    /\ delivered = None
    /\ scan_pc = "loop"
    /\ address_to_test = 0
    /\ found_address = -1
    /\ escaped = None
    /\ bus \in ProbeBuses
    /\ peer_pc = "none"
    /\ peer_taken = 0
    /\ peer_buf = <<>>
    /\ peer_waited = 0

\* find_rw_address.py:85-87, 43-45: tx_and_wait empties the input buffer,
\* writes the next request of main and calls read_frame, which starts its
\* clock and calls read_until.
ProbeSend ==
    /\ scan_pc = "loop"
    /\ pc = "idle"
    /\ LET plan == probe_plan(address_to_test + 1)
       IN  /\ wheel_addr' = plan.dest
           /\ command' = plan.ctl
           /\ payload' = plan.data
           /\ written' = ser_write(written, build_frame(plan.dest, host_addr, plan.ctl,
                                                        plan.data, plan.preamble))
    /\ address_to_test' = address_to_test + 1
    /\ rxq' = <<>>
    /\ pc' = "read"
    /\ elapsed' = 0
    /\ waited' = 0
    /\ frame_received' = <<>>
    /\ result' = None
    /\ UNCHANGED <<pureVars, host_addr, ser_state, connections, ser_timeout, answered,
                   noise, packet_received, facadeVars, scope, raised, delivered,
                   scan_pc, found_address, escaped, bus, peerVars>>

\* A wheel at the address probed answers a PING that has Poll set, while the
\* probe waits for the answer.
ProbeDeviceReply ==
    /\ pc = "read"
    /\ answered < Len(written)
    /\ command = POLL_BIT + PING
    /\ \E d \in bus :
           /\ d[1] = wheel_addr
           /\ rxq' = rxq \o device_frame(d[2], <<wheel_addr, host_addr, command>>)
    /\ answered' = Len(written)
    /\ UNCHANGED <<pureVars, scriptVars, wheel_addr, host_addr, ser_state, connections,
                   ser_timeout, pc, command, payload, written, noise, frame_received,
                   packet_received, elapsed, waited, result, facadeVars>>

\* find_rw_address.py:46-50, 88-94, 122-128: read_until has returned chunk.
\* read_frame returns None for an empty chunk, the chunk when it begins and
\* ends with the delimiter, and None when its time is up; otherwise it calls
\* read_until again.  When read_frame returns, tx_and_wait returns and main
\* goes on: a True during the sweep ends it, and so does the last address.
ReadFrameStep(chunk) ==
    LET returns == chunk = <<>>
                   \/ (chunk[1] = FEND /\ chunk[Len(chunk)] = FEND)
                   \/ elapsed >= READ_FRAME_TIMEOUT
        reply == IF chunk # <<>> /\ chunk[1] = FEND /\ chunk[Len(chunk)] = FEND
                 THEN chunk
                 ELSE <<>>
        res == tx_and_wait(reply)
        sweeping == address_to_test > SWEEP_START
        ends == \/ res.kind \in ExceptionKinds
                \/ sweeping /\ res = Returned(TRUE)
                \/ address_to_test = SWEEP_START + SWEEP_COUNT
    IN  /\ waited' = 0
        /\ IF returns
           THEN /\ pc' = "idle"
                /\ frame_received' = chunk
                /\ result' = res
                /\ found_address' = IF sweeping /\ res = Returned(TRUE)
                                    THEN wheel_addr
                                    ELSE found_address
                /\ escaped' = IF res.kind \in ExceptionKinds THEN res ELSE escaped
                /\ scan_pc' = IF ends THEN "ended" ELSE scan_pc
                /\ ser_state' = IF ends THEN "closed" ELSE ser_state
                /\ connections' = IF ends THEN connections - 1 ELSE connections
           ELSE /\ frame_received' = <<>>
                /\ UNCHANGED <<pc, result, found_address, escaped, scan_pc, ser_state,
                               connections>>

\* find_rw_address.py:45  read_until reads one byte, and returns on the
\* delimiter.
ProbeReadByte ==
    /\ pc = "read"
    /\ rxq # <<>>
    /\ rxq' = Tail(rxq)
    /\ IF Head(rxq) # FEND
       THEN /\ frame_received' = Append(frame_received, Head(rxq))
            /\ UNCHANGED <<pc, waited, result, found_address, escaped, scan_pc,
                           ser_state, connections>>
       ELSE ReadFrameStep(Append(frame_received, Head(rxq)))
    /\ UNCHANGED <<pureVars, wheel_addr, host_addr, ser_timeout, command, payload,
                   written, answered, noise, packet_received, elapsed, facadeVars,
                   scope, raised, delivered, address_to_test, bus, peerVars>>

\* find_rw_address.py:45  read_until returns after 0.2 s without the
\* delimiter, with what it has read.
ProbeReadTimeout ==
    /\ pc = "read"
    /\ rxq = <<>>
    /\ waited >= ser_timeout
    /\ ReadFrameStep(frame_received)
    /\ UNCHANGED <<pureVars, wheel_addr, host_addr, ser_timeout, command, payload,
                   written, answered, rxq, noise, packet_received, elapsed, facadeVars,
                   scope, raised, delivered, address_to_test, bus, peerVars>>

\* A tenth of a second passes while read_until has nothing to read.
ProbeTick ==
    /\ pc = "read"
    /\ rxq = <<>>
    /\ waited < ser_timeout
    /\ elapsed' = elapsed + 1
    /\ waited' = waited + 1
    /\ UNCHANGED <<pureVars, scriptVars, wheel_addr, host_addr, ser_state, connections,
                   ser_timeout, pc, command, payload, written, answered, rxq, noise,
                   frame_received, packet_received, result, facadeVars>>

NextProbe ==
    \/ ProbeSend
    \/ ProbeDeviceReply
    \/ ProbeReadByte
    \/ ProbeReadTimeout
    \/ ProbeTick

SpecProbe == InitProbe /\ [][NextProbe]_vars

\* ------------------------------------------------------------------------
\* Properties of the framing helpers and the CRC engine (under SpecPure)
\* ------------------------------------------------------------------------

Contains(s, b) == \E i \in 1..Len(s) : s[i] = b

\* The byte string starts and ends with the delimiter (a single 0xC0 does both).
Delimited(s) == Len(s) > 0 /\ s[1] = FEND /\ s[Len(s)] = FEND

\* Position i of frame s holds an escape marker that the decoder reads as one:
\* it is inside the delimiters and the byte before it is not itself a marker.
EscapeMarkerAt(s, i) ==
    /\ 2 <= i /\ i <= Len(s) - 1
    /\ s[i] = FESC
    /\ s[i - 1] # FESC

\* C1: for every byte string p, including those holding 0xC0 and 0xDB,
\* _slip_decode(_slip_encode(p)) returns exactly p.
C1_RoundTrip == op = "encode_decode" => output = Bytes(input)

C1_Witness ==
    /\ op = "encode_decode"
    /\ Contains(input, FEND) /\ Contains(input, FESC)
    /\ output = Bytes(input)

\* C2: for every byte string p, the frame _slip_encode(p) starts with 0xC0,
\* ends with 0xC0 and has no 0xC0 at any interior position.
C2_FrameDelimiters ==
    op = "encode" =>
        /\ Len(output.val) >= 2
        /\ output.val[1] = FEND
        /\ output.val[Len(output.val)] = FEND
        /\ \A i \in 2..(Len(output.val) - 1) : output.val[i] # FEND

C2_Witness ==
    /\ op = "encode"
    /\ Contains(input, FEND)
    /\ Len(output.val) = Len(input) + 3

\* C3 (as claimed): decoding a delimited frame whose last byte before the
\* closing delimiter is an escape marker with no transposed code after it
\* returns None, and ends in no other kind of error.
C3_DanglingEscapeReturnsNone ==
    (/\ op = "decode"
     /\ Delimited(input)
     /\ EscapeMarkerAt(input, Len(input) - 1))
        => output = None

\* C4 (as claimed): decoding a delimited frame in which an escape marker is
\* followed by a byte other than 0xDC or 0xDD never returns decoded bytes.
C4_BadTransposedCodeFails ==
    (/\ op = "decode"
     /\ Delimited(input)
     /\ \E i \in 2..(Len(input) - 2) :
            EscapeMarkerAt(input, i) /\ input[i + 1] \notin {TFEND, TFESC})
        => output.kind # "bytes"

\* C5: decoding any byte string that does not both start and end with the
\* delimiter 0xC0 returns None.
C5_UndelimitedReturnsNone ==
    (op = "decode" /\ ~Delimited(input)) => output = None

C5_Witness ==
    /\ op = "decode"
    /\ Len(input) >= 2
    /\ input[1] = FEND /\ input[Len(input)] # FEND
    /\ output = None

\* C6: for every byte string, the driver's CRC engine returns the same 16-bit
\* value as the bitwise reference crc16 of standalone_ping.py.
C6_CrcMatchesReference ==
    op = "crc_both" => output.val[1] = output.val[2]

C6_Witness ==
    /\ op = "crc_both"
    /\ Len(input) >= 3
    /\ output.val[1] = output.val[2]
    /\ output.val[1] \in 0..65535


\* ------------------------------------------------------------------------
\* Properties of the request/reply exchange (under Spec)
\* ------------------------------------------------------------------------

\* The frame of the request the exchange in progress has written.
LastWritten == written[Len(written)]

\* The packet the receive loop decoded when it stopped, and its two parts.
ReplyPacket == packet_received.val
ReplyBody == SubSeq(ReplyPacket, 1, Len(ReplyPacket) - 2)
ReplyCrc == SubSeq(ReplyPacket, Len(ReplyPacket) - 1, Len(ReplyPacket))

\* The exchange has ended on a frame the receive loop accepted as valid SLIP.
EndedOnFrame == pc = "done" /\ packet_received.kind = "bytes"

\* C7: the packet built for a zero-payload PING to destination 0x00 from source
\* 0x02 is 00 02 80 8B 8E (CRC 0x8E8B little-endian); none of its bytes needs
\* escaping, so the frame written is that packet between two delimiters.
C7_BroadcastPingBytes ==
    (/\ written # <<>>
     /\ wheel_addr = 0 /\ host_addr = 2
     /\ command = PING /\ payload = <<>>)
        => LastWritten = <<FEND>> \o <<0, 2, 128, 139, 142>> \o <<FEND>>

C7_Witness ==
    /\ pc = "read"
    /\ written # <<>>
    /\ wheel_addr = 0 /\ host_addr = 2
    /\ command = PING /\ payload = <<>>
    /\ LastWritten = <<192, 0, 2, 128, 139, 142, 192>>

\* C8: a reply packet of at least 5 bytes received in a valid frame whose last
\* two bytes differ from the little-endian CRC of the bytes before them makes
\* _send_and_receive fail with WheelCrcError; no payload is returned.
C8_BadCrcRaisesCrcError ==
    (/\ EndedOnFrame
     /\ Len(ReplyPacket) >= 5
     /\ ReplyCrc # ToBytesLE2(crc16(ReplyBody)))
        => result.kind = "WheelCrcError" /\ result.val = <<>>

C8_Witness ==
    /\ EndedOnFrame
    /\ Len(ReplyPacket) >= 5
    /\ ReplyCrc # ToBytesLE2(crc16(ReplyBody))
    /\ BitAnd(ReplyPacket[3], ACK_BIT) # 0
    /\ result.kind = "WheelCrcError"

\* C9: every request written by _send_and_receive is the SLIP encoding of
\* [device address][host address][control][payload][CRC little-endian]; the CRC
\* covers all bytes before it, and the control byte has bit 7 set, bits 6 and
\* 5 clear and the command code in bits 4..0.
C9_RequestLayout ==
    written # <<>> =>
        LET decoded == slip_decode(LastWritten)
            pkt == decoded.val
            n == Len(pkt)
        IN  /\ decoded.kind = "bytes"
            /\ LastWritten = slip_encode(pkt)
            /\ n = 5 + Len(payload)
            /\ pkt[1] = wheel_addr
            /\ pkt[2] = host_addr
            /\ pkt[3] \div 128 = 1
            /\ (pkt[3] \div 32) % 4 = 0
            /\ pkt[3] % 32 = command
            /\ SubSeq(pkt, 4, n - 2) = payload
            /\ SubSeq(pkt, n - 1, n) = ToBytesLE2(crc_func(SubSeq(pkt, 1, n - 2)))

C9_Witness ==
    /\ pc = "read"
    /\ written # <<>>
    /\ command = POKE
    /\ Contains(payload, FEND) /\ Contains(payload, FESC)
    /\ wheel_addr = 32 /\ host_addr = 17
    /\ Len(LastWritten) > 2 + 5 + Len(payload)

\* C10 (as claimed): a validly framed reply whose decoded packet has four bytes
\* or fewer, the empty packet included, makes _send_and_receive fail with the
\* reply-too-short error.
C10_ShortReplyIsLengthError ==
    (EndedOnFrame /\ Len(ReplyPacket) <= 4)
        => result.kind = "WheelError" /\ result.msg = "Reply packet is too short"

\* The reply packet is at least five bytes long and ends with the CRC of the
\* bytes before it, by the bitwise reference CRC.
ReplyIntact ==
    /\ EndedOnFrame
    /\ Len(ReplyPacket) >= 5
    /\ ReplyCrc = ToBytesLE2(crc16(ReplyBody))

\* Bit 5 of the reply's control byte.
ReplyAckBit == (ReplyPacket[3] \div 32) % 2

\* The reply bytes after the 3-byte header and before the 2-byte CRC.
ReplyPayload == SubSeq(ReplyPacket, 4, Len(ReplyPacket) - 2)

\* C11: every validly framed, CRC-valid reply of at least 5 bytes whose control
\* byte has the ACK bit (bit 5) clear makes _send_and_receive fail with
\* WheelNackError, whatever its payload; no payload is returned.
C11_NackRaisesNackError ==
    (ReplyIntact /\ ReplyAckBit = 0)
        => result.kind = "WheelNackError" /\ result.val = <<>>

C11_Witness ==
    /\ ReplyIntact
    /\ ReplyAckBit = 0
    /\ ReplyPayload # <<>>
    /\ result.kind = "WheelNackError"

\* ------------------------------------------------------------------------
\* Properties of the high-level API (under SpecFacade) and of the receive loop
\* ------------------------------------------------------------------------

\* C12: a validly framed, CRC-valid reply with the ACK bit set, received before
\* the deadline, makes _send_and_receive return exactly the reply bytes after
\* the 3-byte header and before the 2-byte CRC; ping() answered with payload
\* "OK" returns the string "OK".
C12_AckedReplyReturnsPayload ==
    (ReplyIntact /\ ReplyAckBit = 1) =>
        /\ result = Bytes(ReplyPayload)
        /\ (method = "ping" /\ ReplyPayload = <<79, 75>>) => ret = Str(<<79, 75>>)

C12_Witness ==
    /\ ReplyIntact
    /\ ReplyAckBit = 1
    /\ method = "ping"
    /\ ReplyPacket = <<HOST_ADDRESS, WHEEL_ADDRESS, 160, 79, 75>> \o ReplyCrc
    /\ ret.kind = "str" /\ ret.val = <<79, 75>>

\* C13 (as claimed): when the receive loop has accepted no frame, whether the
\* peer stayed silent or sent bytes that never formed a valid frame, the call
\* that wrote its request ends with the timeout error and with nothing else.
C13_NoFrameEndsInTimeout ==
    (/\ pc = "done"
     /\ written # <<>>
     /\ packet_received.kind # "bytes")
        => /\ result.kind = "WheelError"
           /\ result.msg = "Timeout: No valid SLIP frame received."

\* The frame of the acknowledged reply to the request in progress, payload d.
AckFrame(d) ==
    slip_encode(WithCrc(<<host_addr, wheel_addr, POLL_BIT + ACK_BIT + command>> \o d))

\* Byte string s ends with byte string t.
EndsWith(s, t) ==
    /\ Len(s) >= Len(t)
    /\ SubSeq(s, Len(s) - Len(t) + 1, Len(s)) = t

\* C14 (as claimed): while initialize_application waits, an acknowledged INIT
\* reply that has arrived more than 1 second and less than 3 seconds after the
\* request is read to its end and the call succeeds: each byte read leaves the
\* whole reply frame ahead of the receive loop or ends the call with success.
C14_InitAcceptsLateReply ==
    [][LET frame == AckFrame(<<>>)
       IN  (/\ method = "initialize_application"
            /\ pc = "read"
            /\ DEADLINE < elapsed /\ elapsed < INIT_TIMEOUT
            /\ EndsWith(frame_received \o rxq, frame)
            /\ rxq' = Tail(rxq) /\ elapsed' = elapsed)
               => \/ pc' = "read" /\ EndsWith(frame_received' \o rxq', frame)
                  \/ pc' = "done" /\ result' = Bytes(<<>>) /\ ret' = None]_vars

\* C15 (as claimed): before the deadline, noise bytes followed by a complete
\* acknowledged reply frame end in the payload of that reply: each byte read
\* leaves the whole reply frame ahead of the receive loop or returns its
\* payload.
C15_NoiseThenReplyReturnsPayload ==
    [][\A d \in ReplyData :
          LET frame == AckFrame(d)
          IN  (/\ pc = "read"
               /\ elapsed < DEADLINE
               /\ noise > 0
               /\ answered = Len(written)
               /\ EndsWith(frame_received \o rxq, frame)
               /\ rxq' = Tail(rxq) /\ elapsed' = elapsed)
                  => \/ pc' = "read" /\ EndsWith(frame_received' \o rxq', frame)
                     \/ pc' = "done" /\ result' = Bytes(d)]_vars

\* C16 (as claimed): for every read method, an acknowledged READ_FILE reply
\* whose first payload byte differs from the requested file id ends the method
\* with the wrong-file error; no float is returned.
C16_WrongFileIdIsMismatch ==
    (/\ method \in ReadMethods
     /\ ReplyIntact
     /\ ReplyAckBit = 1
     /\ ReplyPayload # <<>>
     /\ ReplyPayload[1] # payload[1])
        => /\ ret.kind = "WheelError"
           /\ ret.msg = "Wheel replied with wrong file!"

\* C17 (as claimed): a CRC-valid, acknowledged reply whose command code differs
\* from that of the request just sent is rejected with an error of the driver;
\* its payload is not returned.
C17_OtherCommandRejected ==
    (/\ ReplyIntact
     /\ ReplyAckBit = 1
     /\ ReplyPacket[3] % 32 # command)
        => result.kind = "WheelError"

\* C18: read_temperature called with a sensor index outside 0..3 fails with
\* ValueError and writes no bytes to the connection.
C18_BadSensorIndexIsLocal ==
    (method = "read_temperature" /\ (arg < 0 \/ arg > 3))
        => /\ pc = "done"
           /\ ret.kind = "ValueError"
           /\ written = <<>>

C18_Witness ==
    /\ method = "read_temperature"
    /\ arg = 4
    /\ ser_state = "open"
    /\ ret.kind = "ValueError"
    /\ written = <<>>

\* The little-endian float32 bytes of the setpoint a set method was called
\* with: 0.0, 1.0, -0.5, and 2*pi and -pi for 60 and -30 rpm.
SetpointBytes ==
    CASE method = "set_idle" -> <<0, 0, 0, 0>>
      [] method = "set_speed_rpm" /\ arg = 0 -> <<0, 0, 0, 0>>
      [] method = "set_speed_rpm" /\ arg = 60 -> <<219, 15, 201, 64>>
      [] method = "set_speed_rpm" /\ arg = -30 -> <<219, 15, 73, 192>>
      [] method \in {"set_torque", "set_momentum"} /\ arg = <<0, 0, 0>> -> <<0, 0, 0, 0>>
      [] method \in {"set_torque", "set_momentum"} /\ arg = <<0, 1, 0>> -> <<0, 0, 128, 63>>
      [] method \in {"set_torque", "set_momentum"} /\ arg = <<1, 1, -1>> -> <<0, 0, 0, 191>>

\* C19: set_idle, set_speed_rpm, set_torque and set_momentum each write a
\* WRITE_FILE request (command code 8) whose 6-byte payload is the file id
\* 0x00, then the mode code (IDLE 0x00, SPEED 0x03, TORQUE 0x12, MOMENTUM
\* 0x11), then the 4 bytes of the setpoint.
C19_SetRequestLayout ==
    (method \in SetMethods /\ written # <<>>) =>
        LET pkt == slip_decode(LastWritten).val
            data == SubSeq(pkt, 4, Len(pkt) - 2)
        IN  /\ pkt[3] % 32 = 8
            /\ Len(data) = 6
            /\ data[1] = 0
            /\ data[2] = (CASE method = "set_idle" -> 0
                            [] method = "set_speed_rpm" -> 3
                            [] method = "set_torque" -> 18
                            [] method = "set_momentum" -> 17)
            /\ SubSeq(data, 3, 6) = SetpointBytes

C19_Witness ==
    /\ method = "set_torque"
    /\ arg = <<1, 1, -1>>
    /\ written # <<>>
    /\ payload = <<0, 18, 0, 0, 0, 191>>

\* C20: after __exit__ the serial connection is not open, also when the idle
\* command failed with a timeout, a NACK, a CRC error or a transport error.
C20_ExitAlwaysCloses ==
    (method = "__exit__" /\ pc = "done") => ser_state # "open"

C20_Witness ==
    /\ method = "__exit__"
    /\ pc = "done"
    /\ written # <<>>
    /\ result.kind = "WheelNackError"
    /\ ser_state = "closed"

\* The exception classes of the driver: WheelError and its subclasses
\* (driver.py:73-83).
WheelErrors == {"WheelError", "WheelCrcError", "WheelNackError"}

\* C23 (as claimed): a facade operation that fails after bytes of a reply were
\* received fails with WheelError or one of its subclasses, never with an
\* exception of another type.
C23_ReplyFailuresAreWheelErrors ==
    (/\ pc = "done"
     /\ method \in ReadMethods \cup SetMethods \cup {"ping", "initialize_application"}
     /\ frame_received # <<>>
     /\ ret.kind \in ExceptionKinds)
        => ret.kind \in WheelErrors

\* ------------------------------------------------------------------------
\* Properties of a with statement (under SpecSession)
\* ------------------------------------------------------------------------

\* The request packet written last.
LastRequest == slip_decode(LastWritten).val

\* The request written last is the IDLE command: WRITE_FILE to COMMAND_VALUE
\* (file 0) with mode IDLE (0) and the float 0.0, from the host to the wheel.
LastRequestIsIdle ==
    /\ written # <<>>
    /\ SubSeq(LastRequest, 1, 3) = <<wheel_addr, host_addr, POLL_BIT + WRITE_FILE>>
    /\ SubSeq(LastRequest, 4, Len(LastRequest) - 2) = <<0, 0, 0, 0, 0, 0>>

\* C21: whenever a with statement is left, after a body that returned or one
\* that raised, the IDLE command has been written while the connection was
\* still open, the connection is closed only after it, and no request is
\* written after it.
C21_IdleWrittenLastBeforeClose ==
    /\ method = "__exit__" => LastRequestIsIdle
    /\ (method = "__exit__" /\ pc = "read") => ser_state = "open"
    /\ ser_state = "closed" => (method = "__exit__" /\ pc = "done")
    /\ scope = "exited" => ser_state = "closed"

C21_Witness ==
    /\ scope = "exited"
    /\ raised.kind = "WheelNackError"
    /\ Len(written) = 2
    /\ LastRequestIsIdle
    /\ ser_state = "closed"

\* C22: an exception raised by a call inside the with statement is the
\* exception the with statement ends with, after the connection was closed;
\* it is neither suppressed nor replaced by a failure of the idle command.
C22_BodyErrorIsDelivered ==
    scope = "exited" => (delivered = raised /\ ser_state = "closed")

C22_Witness ==
    /\ scope = "exited"
    /\ raised.kind = "WheelCrcError"
    /\ result.kind = "WheelError"
    /\ delivered = raised

\* C24: a frame is written only by the step that begins a call of a public
\* method, and that step writes one frame; no step of the receive loop and no
\* step that ends a call with a timeout, a CRC error, a NACK or a framing
\* failure writes the request again.
C24_OneFramePerCall ==
    [][written' # written
          => /\ pc = "idle"
             /\ pc' = "read"
             /\ Len(written') = Len(written) + 1
             /\ SubSeq(written', 1, Len(written)) = written]_vars

C24_Witness ==
    /\ pc = "done"
    /\ method = "ping"
    /\ ret.kind = "WheelError"
    /\ ret.msg = "Timeout: No valid SLIP frame received."
    /\ Len(written) = 1

\* ------------------------------------------------------------------------
\* Properties of the address scanner (under SpecScan)
\* ------------------------------------------------------------------------

\* The i-th of the addresses 0..255 other than host, in ascending order.
ProbedAddress(i, host) == IF i - 1 < host THEN i - 1 ELSE i

\* Frame number i written is a PING with no payload from the host to address.
IsPingTo(i, address) ==
    LET pkt == slip_decode(written[i]).val
    IN  /\ Len(pkt) = 5
        /\ SubSeq(pkt, 1, 3) = <<address, host_addr, POLL_BIT + PING>>

\* The scan has ended without an interrupt from the user, on a port that was
\* opened.
ScanEnded ==
    /\ scan_pc = "ended"
    /\ ser_state # "none"
    /\ escaped.kind # "KeyboardInterrupt"

\* C25: a request is only ever on its way to the address the loop is at, which
\* is not the host address; and when a scan in which no device answered has
\* ended, the frames written are 255 PINGs, one to each address 0..255 other
\* than the host address, in ascending order.
C25_SweepProbesEachAddressOnce ==
    /\ (scan_pc = "probe" /\ pc = "read")
          => (wheel_addr = address_to_test /\ wheel_addr # host_addr)
    /\ (ScanEnded /\ answered = 0)
          => /\ Len(written) = ADDRESS_COUNT - 1
             /\ \A i \in 1..Len(written) : IsPingTo(i, ProbedAddress(i, host_addr))

C25_Witness ==
    /\ ScanEnded
    /\ answered = 0
    /\ host_addr = HOST_ADDRESS
    /\ IsPingTo(17, 16)
    /\ IsPingTo(18, 18)
    /\ IsPingTo(255, 255)

\* C26 (as claimed): once an address is reported the scan has ended; the address reported
\* is the one whose ping returned, the frame written last is the PING to it
\* and one frame was written to every lower address other than the host's;
\* the loop is never continued after a ping that returned.  With a wheel at
\* 0x20 only and the host at 0x11, the address reported is 0x20 and it is
\* reported after 0x20 probes, which is at most 0x21.
C26_StopsAtFirstSuccess ==
    /\ found_address # -1
          => /\ scan_pc = "ended"
             /\ ret.kind = "str"
             /\ found_address = wheel_addr
             /\ IsPingTo(Len(written), found_address)
             /\ Len(written) = found_address + (IF host_addr < found_address THEN 0 ELSE 1)
    /\ (scan_pc \in {"loop", "probe"} /\ pc = "idle") => ret.kind # "str"
    /\ (host_addr = 17 /\ bus = {<<32, "ack">>} /\ found_address # -1)
          => /\ found_address = 32
             /\ Len(written) = 32
             /\ Len(written) <= 33

\* The longest frame a device answers with: a packet of two bytes more than
\* the shortest, every byte escaped, between two delimiters.
ReplyFrameMax == 2 * (MIN_REPLY_LEN + 2) + 2

\* An upper bound on the steps one iteration of the loop takes: the iteration
\* itself, the ping, the passing of time and the reads that return nothing,
\* the arrival of a reply, and the handling of the outcome; the reads that
\* return a byte are counted by the bytes themselves.
ProbeWork == 2 * ClockEnd + ReplyFrameMax + 5

\* An upper bound on the steps the script can still take: those of the
\* iterations to come and those left of the iteration it is in.
ScanWork ==
    LET later == (ADDRESS_COUNT - 1 - address_to_test) * ProbeWork + 1 + Len(rxq)
                 + (IF answered < Len(written) THEN ReplyFrameMax + 1 ELSE 0)
        reading == 2 * (ClockEnd - elapsed)
                   + (IF waited >= ser_timeout THEN 1 ELSE 0)
                   + 1
    IN  CASE scan_pc = "ended" -> 0
          [] scan_pc = "start" -> later + (IF ser_state = "none" THEN 2 ELSE 1)
          [] scan_pc = "loop" -> later
          [] scan_pc = "probe" /\ pc = "idle" -> later + ProbeWork - 1
          [] scan_pc = "probe" /\ pc = "read" -> later + reading
          [] scan_pc = "probe" /\ pc = "done" -> later + 1

\* C27: the scan terminates: every step of the script, the driver, the clock
\* and the bus lowers the bound ScanWork on the steps still to come, which is
\* never negative.  When a scan in which no device answered and which the
\* user did not interrupt has ended, it has probed the last address,
\* found_address is still -1 and no exception has left the script.
C27_SilentBusEndsNotFound ==
    [][/\ ScanWork' < ScanWork
       /\ ScanWork' >= 0
       /\ (ScanEnded' /\ answered' = 0)
             => /\ found_address' = -1
                /\ escaped' = None
                /\ address_to_test' = ADDRESS_COUNT - 1
                /\ Len(written') = ADDRESS_COUNT - 1]_vars

C27_Witness ==
    /\ ScanEnded
    /\ answered = 0
    /\ bus = {}
    /\ found_address = -1
    /\ escaped = None
    /\ ser_state = "closed"
    /\ ret.msg = "Timeout: No valid SLIP frame received."

\* The ways a probe fails other than by the timeout: a CRC error, a NACK, a
\* packet that is too short or an invalid frame, and the IndexError of a frame
\* that ends on an escape byte.
ProbeFailedOnReply ==
    \/ ret.kind \in {"WheelCrcError", "WheelNackError", "IndexError"}
    \/ ret.kind = "WheelError" /\ ret.msg # "Timeout: No valid SLIP frame received."

\* C28: when a probe has failed for a reason other than the timeout, the step
\* of the script that follows reports no address, lets no exception out,
\* leaves the connection open and goes back to the loop for the next address.
C28_FailedProbeIsNoReply ==
    [][(scan_pc = "probe" /\ pc = "done" /\ pc' = "idle" /\ ProbeFailedOnReply)
          => /\ scan_pc' = "loop"
             /\ found_address' = -1
             /\ escaped' = None
             /\ ser_state' = "open"]_vars

C28_Witness ==
    /\ bus = {<<3, "crc">>, <<5, "ack">>}
    /\ ret.kind = "WheelCrcError"
    /\ scan_pc = "probe"
    /\ pc = "idle"
    /\ address_to_test = 4
    /\ wheel_addr = 4
    /\ found_address = -1

\* C29 (as claimed): a probe that no device has answered is given up when the
\* scan timeout of 0.1 s has elapsed: it is not waiting for a reply later
\* than that.
C29_ProbeGivesUpAfterScanTimeout ==
    (scan_pc = "probe" /\ pc = "read" /\ answered < Len(written))
        => elapsed <= SCAN_TIMEOUT

\* C30: when the script has ended, with an address found, with none found or
\* with an exception that left the loop, the serial connection is not open.
C30_ScanAlwaysCloses ==
    scan_pc = "ended" => ser_state # "open"

C30_Witness ==
    /\ scan_pc = "ended"
    /\ escaped.kind = "KeyboardInterrupt"
    /\ Len(written) = 3
    /\ ser_state = "closed"

\* ------------------------------------------------------------------------
\* Further properties of the exchange and of the session
\* ------------------------------------------------------------------------

\* C35: a validly framed reply of at least 5 bytes whose CRC is wrong and whose
\* control byte has the ACK bit clear makes _send_and_receive fail with
\* WheelCrcError: the CRC is checked before the ACK bit.
C35_CrcCheckedBeforeAck ==
    (/\ EndedOnFrame
     /\ Len(ReplyPacket) >= MIN_REPLY_LEN
     /\ ReplyCrc # ToBytesLE2(crc16(ReplyBody))
     /\ ReplyAckBit = 0)
        => result.kind = "WheelCrcError"

C35_Witness ==
    /\ EndedOnFrame
    /\ Len(ReplyPacket) = 7
    /\ ReplyCrc # ToBytesLE2(crc16(ReplyBody))
    /\ ReplyAckBit = 0
    /\ result.kind = "WheelCrcError"

\* C40 (as claimed): when _send_and_receive returns a payload, the reply packet
\* it was taken from has the session's host address as its destination and the
\* session's device address as its source.
C40_ReplyAddressesChecked ==
    (pc = "done" /\ result.kind = "bytes")
        => /\ ReplyPacket[1] = host_addr
           /\ ReplyPacket[2] = wheel_addr

\* C36 (as claimed): before the deadline, an empty frame (two delimiters)
\* followed by a complete acknowledged reply frame ends in the payload of that
\* reply: each byte read leaves the whole reply frame ahead of the receive
\* loop or returns its payload.
C36_EmptyFrameIsSkipped ==
    [][\A d \in ReplyData :
          LET frame == AckFrame(d)
          IN  (/\ pc = "read"
               /\ elapsed < DEADLINE
               /\ frame_received \o rxq = <<FEND, FEND>> \o frame
               /\ rxq' = Tail(rxq) /\ elapsed' = elapsed)
                  => \/ pc' = "read" /\ EndsWith(frame_received' \o rxq', frame)
                     \/ pc' = "done" /\ result' = Bytes(d)]_vars

\* C38: when initialize_application has ended, with a return or with any
\* error, the read timeout of the connection is the one it had before the
\* call, the 1.0 s that open() set.
C38_InitRestoresTimeout ==
    (method = "initialize_application" /\ pc = "done" /\ ser_state # "none")
        => ser_timeout = SER_TIMEOUT

C38_Witness ==
    /\ method = "initialize_application"
    /\ pc = "done"
    /\ elapsed > DEADLINE
    /\ ret.kind = "WheelNackError"
    /\ ser_timeout = SER_TIMEOUT

\* C39 (as claimed): when an exchange returns a payload, the wheel has sent
\* its reply to the request that this exchange wrote: the payload is not that
\* of a reply to an earlier request, still unanswered when the earlier call
\* timed out.
C39_ReplyBelongsToRequest ==
    (pc = "done" /\ result.kind = "bytes") => answered = Len(written)

\* C34: after any sequence of open() and close() calls the session has at
\* most one open connection, and it has one exactly when the session is open;
\* open() on an open session and close() on a session that is closed or was
\* never opened change nothing.
C34_AtMostOneConnection ==
    /\ [](connections \in {0, 1} /\ (connections = 1 <=> ser_state = "open"))
    /\ [][(Open /\ ser_state = "open") => UNCHANGED vars]_vars
    /\ [][(Close /\ ser_state # "open") => UNCHANGED vars]_vars

\* The session is open with its one connection, and a request was written
\* and answered on it.
C34_Witness ==
    /\ ser_state = "open"
    /\ connections = 1
    /\ pc = "done"
    /\ result.kind = "bytes"

C32_AdapterTestSucceeds ==
    /\ (written # <<>> /\ peer_taken >= Len(written[1])) => answered >= 1
    /\ (method = "ping" /\ pc = "done" /\ noise = 0)
           => ret = Str(ascii_decode_ignore(SIMULATED_WHEEL_OK))

\* What the model shows instead: the simulator never answers, and the ping
\* never returns.
AdapterTestNeverSucceeds ==
    /\ answered = 0
    /\ (method = "ping" /\ pc = "done") => ret.kind \in ExceptionKinds

\* C33 (as claimed): in the two-port loopback test, however the host's write
\* falls between the emulator's two read_until calls, the emulator answers the
\* PING once it has read the frame, and the host ends with the payload
\* "EMULATOR_OK" of a CRC-valid reply.
C33_LoopbackSucceeds ==
    /\ (written # <<>> /\ peer_taken = Len(line_bytes(written))) => answered = 1
    /\ pc = "done" => result = Bytes(EMULATOR_OK)

\* What the model shows instead: the test succeeds when the frame arrives
\* during the emulator's first read_until, and the host times out when it
\* arrives during the second.
LoopbackSucceeds == pc = "done" /\ result = Bytes(EMULATOR_OK)
LoopbackTimesOut == pc = "done" /\ result = Failed("HOST TIMED OUT")

\* C37 (as claimed): in find_rw_address, when a wheel has answered a probe
\* with a well-formed frame while the probe waited, tx_and_wait returns True,
\* and during the sweep the address is reported and the sweep ends there.
C37_ProbeReportsAnswer ==
    (pc = "idle" /\ written # <<>> /\ answered = Len(written))
        => /\ result = Returned(TRUE)
           /\ address_to_test > SWEEP_START
                  => (found_address = wheel_addr /\ scan_pc = "ended")

\* What the model shows instead: tx_and_wait never returns True and the sweep
\* reports no address.
ProbeNeverReports ==
    /\ result # Returned(TRUE)
    /\ found_address = -1

====
